---- MODULE Spec2Model ----
(***************************************************************************)
(* Verification model of the PICC post-processing core:                    *)
(*   - compliance_offset (src/compliance-ok.py), the ASTM windowed         *)
(*     compliance-offset estimator;                                        *)
(*   - the cycle segmentation and the stiffness-intersection /             *)
(*     opening-closure force extraction of src/post-process.py.            *)
(* Floating-point values are modelled as rationals extended with NaN, +Inf  *)
(* and -Inf; arrays are sequences of such values.  The sample data and the *)
(* least-squares solves are exact; the arithmetic on the window parameters *)
(* (span, shift, shift1), whose decimal values no binary float holds, is   *)
(* rounded to nearest-even after every operation as the interpreter does.  *)
(***************************************************************************)
EXTENDS Integers, Sequences, FiniteSets, TLC

(***************************************************************************)
(* Numbers: a float is [k, n, d] with k in {"num","nan","inf","ninf"};     *)
(* for k = "num" the value is n/d in lowest terms with d > 0.              *)
(***************************************************************************)
Abs(i) == IF i < 0 THEN -i ELSE i

RECURSIVE GCD(_, _)
GCD(a, b) == IF b = 0 THEN a ELSE GCD(b, a % b)

Sign(i) == IF i < 0 THEN -1 ELSE IF i > 0 THEN 1 ELSE 0

Num(n, d) ==
    LET s == IF d < 0 THEN -1 ELSE 1
        g == GCD(Abs(n), Abs(d))
    IN  [k |-> "num", n |-> (s * n) \div g, d |-> Abs(d) \div g]

I(i) == [k |-> "num", n |-> i, d |-> 1]

NaN == [k |-> "nan", n |-> 0, d |-> 1]

PInf == [k |-> "inf", n |-> 1, d |-> 1]

NInf == [k |-> "ninf", n |-> -1, d |-> 1]

IsNum(a) == a.k = "num"

IsNaN(a) == a.k = "nan"

IsInf(a) == a.k \in {"inf", "ninf"}

\* sign of a non-NaN value
SignOf(a) == Sign(a.n)

FNeg(a) ==
    CASE a.k = "num" -> [k |-> "num", n |-> -a.n, d |-> a.d]
      [] a.k = "inf" -> NInf
      [] a.k = "ninf" -> PInf
      [] OTHER -> NaN

FAdd(a, b) ==
    IF IsNaN(a) \/ IsNaN(b) THEN NaN
    ELSE IF IsInf(a) THEN (IF IsInf(b) /\ a.k # b.k THEN NaN ELSE a)
    ELSE IF IsInf(b) THEN b
    ELSE LET g == GCD(a.d, b.d)
         IN  Num(a.n * (b.d \div g) + b.n * (a.d \div g), (a.d \div g) * b.d)

FSub(a, b) == FAdd(a, FNeg(b))

FMul(a, b) ==
    IF IsNaN(a) \/ IsNaN(b) THEN NaN
    ELSE IF IsInf(a) \/ IsInf(b)
         THEN (IF SignOf(a) * SignOf(b) = 0 THEN NaN
               ELSE IF SignOf(a) * SignOf(b) > 0 THEN PInf ELSE NInf)
    ELSE LET g1 == GCD(Abs(a.n), b.d)
             g2 == GCD(Abs(b.n), a.d)
         IN  Num((a.n \div g1) * (b.n \div g2), (a.d \div g2) * (b.d \div g1))

FDiv(a, b) ==
    IF IsNaN(a) \/ IsNaN(b) THEN NaN
    ELSE IF IsInf(a)
         THEN (IF IsInf(b) THEN NaN
               ELSE IF SignOf(a) * SignOf(b) < 0 THEN FNeg(PInf) ELSE PInf)
    ELSE IF IsInf(b) THEN I(0)
    ELSE IF b.n = 0
         THEN (IF a.n = 0 THEN NaN ELSE IF a.n > 0 THEN PInf ELSE NInf)
    ELSE FMul(a, Num(b.d, b.n))

\* comparisons follow IEEE: every comparison with NaN is false
FLt(a, b) ==
    IF IsNaN(a) \/ IsNaN(b) THEN FALSE
    ELSE IF a.k = "ninf" THEN b.k # "ninf"
    ELSE IF a.k = "inf" THEN FALSE
    ELSE IF b.k = "inf" THEN TRUE
    ELSE IF b.k = "ninf" THEN FALSE
    ELSE a.n * b.d < b.n * a.d

FEq(a, b) == ~IsNaN(a) /\ ~IsNaN(b) /\ a = b

FLe(a, b) == FLt(a, b) \/ FEq(a, b)

FGe(a, b) == FLe(b, a)

FGt(a, b) == FLt(b, a)

FAbs(a) == IF IsNaN(a) THEN NaN ELSE IF SignOf(a) < 0 THEN FNeg(a) ELSE a

\* int(np.floor(a)) of a finite value
FFloor(a) == a.n \div a.d

\* smallest integer >= a, for a finite value
FCeil(a) == -((-a.n) \div a.d)

\* Python's float a % b for finite a and b > 0
FMod(a, b) == FSub(a, FMul(I(FFloor(FDiv(a, b))), b))

(***************************************************************************)
(* Binary floating point: round to nearest, ties to even                   *)
(***************************************************************************)
RECURSIVE Pow2(_)
Pow2(k) == IF k = 0 THEN 1 ELSE 2 * Pow2(k - 1)

\* Significand width.  A double has 53 bits.  The parameters are multiples of
\* 1/10, 1/20 and 1/40, whose binary expansions repeat every 4 bits, so the
\* roundings of a significand shorter by a multiple of 4 bits fall the same
\* way; 13 bits keep every intermediate value inside TLC's integers.
MantBits == 53 - 40

RECURSIVE FlScale(_, _, _)
\* the float nearest (n/d) * 2^e, for n, d > 0: bring n/d into
\* [2^(MantBits-1), 2^MantBits), then round the quotient
FlScale(n, d, e) ==
    IF n \div d >= Pow2(MantBits)
    THEN (IF n % 2 = 0 THEN FlScale(n \div 2, d, e + 1)
          ELSE FlScale(n, 2 * d, e + 1))
    ELSE IF n \div d < Pow2(MantBits - 1)
    THEN (IF d % 2 = 0 THEN FlScale(n, d \div 2, e - 1)
          ELSE FlScale(2 * n, d, e - 1))
    ELSE LET m  == n \div d
             up == 2 * (n % d) > d \/ (2 * (n % d) = d /\ m % 2 = 1)
         IN  IF e >= 0 THEN Num((IF up THEN m + 1 ELSE m) * Pow2(e), 1)
             ELSE Num(IF up THEN m + 1 ELSE m, Pow2(-e))

\* the float nearest the real a
Fl(a) ==
    IF ~IsNum(a) \/ a.n = 0 THEN a
    ELSE IF a.n > 0 THEN FlScale(a.n, a.d, 0)
    ELSE FNeg(FlScale(-a.n, a.d, 0))

\* the float a decimal literal n/d denotes
Lit(n, d) == Fl(Num(n, d))

FlAdd(a, b) == Fl(FAdd(a, b))

FlSub(a, b) == Fl(FSub(a, b))

FlMul(a, b) == Fl(FMul(a, b))

FlDiv(a, b) == Fl(FDiv(a, b))

(***************************************************************************)
(* Arrays (numpy 1-d arrays as sequences, 0-based index i at position i+1) *)
(***************************************************************************)
RECURSIVE SelectIdx(_, _, _)
\* np.where(mask)[0]: the 1-based positions p >= from of xs with Test(xs[p])
SelectIdx(xs, Test(_), from) ==
    IF from > Len(xs) THEN <<>>
    ELSE IF Test(xs[from]) THEN <<from>> \o SelectIdx(xs, Test, from + 1)
    ELSE SelectIdx(xs, Test, from + 1)

\* a[idx]: fancy indexing by a sequence of positions
Take(xs, idx) == [p \in 1..Len(idx) |-> xs[idx[p]]]

\* a[from:] with a 0-based slice start
SliceFrom(xs, from) ==
    IF from >= Len(xs) THEN <<>> ELSE SubSeq(xs, from + 1, Len(xs))

\* a slice that takes the element at `to` as well
SliceThrough(xs, from, to) ==
    IF from > to \/ from >= Len(xs) THEN <<>>
    ELSE SubSeq(xs, from + 1, IF to + 1 > Len(xs) THEN Len(xs) ELSE to + 1)

\* a[from:to] with 0-based, half-open slice bounds (0 <= from, to)
Slice(xs, from, to) ==
    LET hi == IF to > Len(xs) THEN Len(xs) ELSE to
    IN  IF from >= hi THEN <<>> ELSE SubSeq(xs, from + 1, hi)

RECURSIVE FSum(_)
FSum(xs) == IF xs = <<>> THEN I(0) ELSE FAdd(Head(xs), FSum(Tail(xs)))

RECURSIVE FMinFrom(_, _, _)
FMinFrom(xs, from, best) ==
    IF from > Len(xs) THEN best
    ELSE IF IsNaN(best) \/ IsNaN(xs[from]) THEN NaN
    ELSE FMinFrom(xs, from + 1, IF FLt(xs[from], best) THEN xs[from] ELSE best)

\* np.min of a non-empty array (NaN is contagious)
FMinSeq(xs) == FMinFrom(xs, 2, xs[1])

RECURSIVE FMaxFrom(_, _, _)
FMaxFrom(xs, from, best) ==
    IF from > Len(xs) THEN best
    ELSE IF IsNaN(best) \/ IsNaN(xs[from]) THEN NaN
    ELSE FMaxFrom(xs, from + 1, IF FGt(xs[from], best) THEN xs[from] ELSE best)

\* np.max of a non-empty array (NaN is contagious)
FMaxSeq(xs) == FMaxFrom(xs, 2, xs[1])

RECURSIVE ArgMinFrom(_, _, _)
\* position of the first minimum of xs[from..]; best is the best position so far
ArgMinFrom(xs, from, best) ==
    IF from > Len(xs) THEN best
    ELSE IF IsNaN(xs[best]) THEN best
    ELSE IF IsNaN(xs[from]) \/ FLt(xs[from], xs[best])
         THEN ArgMinFrom(xs, from + 1, from)
    ELSE ArgMinFrom(xs, from + 1, best)

\* np.argmin(xs) as a 0-based index: the first minimum, a NaN counting as minimal
ArgMin(xs) == ArgMinFrom(xs, 2, 1) - 1

\* len(np.arange(start, stop, step)) = ceil((stop - start)/step), at least 0
ARangeLen(start, stop, step) ==
    IF FCeil(FlDiv(FlSub(stop, start), step)) < 0 THEN 0
    ELSE FCeil(FlDiv(FlSub(stop, start), step))

\* np.arange(start, stop, step) for step > 0: the first two elements are
\* start and start + step, element i is start + i*delta with
\* delta = (start + step) - start
ARange(start, stop, step) ==
    [p \in 1..ARangeLen(start, stop, step) |->
        IF p = 1 THEN start
        ELSE IF p = 2 THEN FlAdd(start, step)
        ELSE FlAdd(start, FlMul(I(p - 1), FlSub(FlAdd(start, step), start)))]

AllFinite(xs) == \A p \in 1..Len(xs) : IsNum(xs[p])

AllSame(xs) == \A p \in 1..Len(xs) : xs[p] = xs[1]

(***************************************************************************)
(* Least-squares line fits                                                 *)
(***************************************************************************)
\* what a LAPACK least-squares solve does with a matrix holding NaN: it
\* raises LinAlgError on some builds and returns NaN coefficients on others
LinOutcomes == {"raise", "nan"}

FitResult(st, c0, c1) == [st |-> st, c0 |-> c0, c1 |-> c1]

\* a fit whose scaled matrix holds NaN: the outcome depends on the build
FitUndefined == FitResult("undefined", NaN, NaN)

FMean(xs) == FDiv(FSum(xs), I(Len(xs)))

\* ordinary least squares through >= 2 points with non-constant x
OLS(x, y) ==
    LET n   == I(Len(x))
        Sx  == FSum(x)
        Sy  == FSum(y)
        Sxx == FSum([p \in 1..Len(x) |-> FMul(x[p], x[p])])
        Sxy == FSum([p \in 1..Len(x) |-> FMul(x[p], y[p])])
        m   == FDiv(FSub(FMul(n, Sxy), FMul(Sx, Sy)),
                    FSub(FMul(n, Sxx), FMul(Sx, Sx)))
    IN  FitResult("ok", m, FDiv(FSub(Sy, FMul(m, Sx)), n))

\* np.polyfit(x, y, 1): coefficients [c0, c1] of y = c0*x + c1.
\*  - an empty x raises TypeError;
\*  - the Vandermonde columns [x, 1] are scaled to unit norm and solved by
\*    minimum-norm least squares: when every x equals c # 0 (one sample, or a
\*    constant predictor) the two scaled columns coincide up to sign and the
\*    solution is c0 = mean(y)/(2c), c1 = mean(y)/2, with only a RankWarning;
\*  - when every x is 0 the scale of the first column is 0 and the scaled
\*    matrix holds NaN; so it does with a NaN or Inf sample.
Polyfit(x, y) ==
    IF Len(x) = 0 THEN FitResult("TypeError", NaN, NaN)
    ELSE IF ~AllFinite(x) \/ ~AllFinite(y) THEN FitUndefined
    ELSE IF AllSame(x)
         THEN (IF x[1].n = 0 THEN FitUndefined
               ELSE FitResult("ok", FDiv(FMean(y), FMul(I(2), x[1])),
                                    FDiv(FMean(y), I(2))))
    ELSE OLS(x, y)

\* A fit whose predictor values are results of earlier arithmetic that agree
\* exactly in real arithmetic: their floats may agree too (then Polyfit says
\* what happens) or differ by rounding noise.  Noise of size e makes the
\* fitted line steep, slope of order 1/e, and the predictor value it assigns
\* to any target lies within that noise of the common value.  c0 is the limit
\* of the slope, c1 the common predictor value.
FitSteep(x) == FitResult("steep", PInf, x[1])

\* the outcomes rounding noise adds to Polyfit(x, y)
Perturbed(x) ==
    IF Len(x) >= 1 /\ AllFinite(x) /\ AllSame(x) /\ (Len(x) >= 2 \/ x[1].n = 0)
    THEN {FitSteep(x)}
    ELSE {}

\* the exception a fit raises on a build b, or "ok"
Raised(fit, b) ==
    IF fit.st = "undefined" THEN (IF b = "raise" THEN "LinAlgError" ELSE "ok")
    ELSE IF fit.st = "steep" THEN "ok"
    ELSE fit.st

\* the outcome of a run of fits made in index order: the first exception
FirstFailure(fits, b) ==
    IF \A p \in 1..Len(fits) : Raised(fits[p], b) = "ok" THEN "ok"
    ELSE Raised(fits[CHOOSE p \in 1..Len(fits) :
                        /\ Raised(fits[p], b) # "ok"
                        /\ \A q \in 1..(p - 1) : Raised(fits[q], b) = "ok"], b)

AnyUndefined(fits) == \E p \in 1..Len(fits) : fits[p].st = "undefined"

\* the builds a run may be on, given what it has shown so far
Builds(known) == IF known = "unknown" THEN LinOutcomes ELSE {known}

(***************************************************************************)
(* compliance_offset (src/compliance-ok.py)                                *)
(***************************************************************************)
\* indices of the samples of X inside [lo, hi], both ends inclusive
InWindow(X, lo, hi) == SelectIdx(X, LAMBDA v : FGe(v, lo) /\ FLe(v, hi), 1)

\* a reference band that leaves out its upper end
RefWindowBelowTop(Xul, Xul_min, X_max, HL, F) ==
    SelectIdx(Xul,
              LAMBDA v : /\ FGe(v, FlAdd(Xul_min, FlMul(FlSub(HL, F), FlSub(X_max, Xul_min))))
                         /\ FLt(v, FlAdd(Xul_min, FlMul(HL, FlSub(X_max, Xul_min)))), 1)

\* idx_ul: the high-load reference band of the unloading arm
RefWindow(Xul, Xul_min, X_max, HL, F) ==
    LET LL == FlSub(HL, F)
        R  == FlSub(X_max, Xul_min)
    IN  InWindow(Xul, FlAdd(Xul_min, FlMul(LL, R)), FlAdd(Xul_min, FlMul(HL, R)))

\* N_segments = 2 + int(floor((1 - span)/shift)), minus 1 if span % shift == 0
NSegments(span, shift) ==
    LET n0 == 2 + FFloor(FlDiv(FlSub(I(1), span), shift))
    IN  IF FEq(FMod(span, shift), I(0)) THEN n0 - 1 ELSE n0

\* the interior centers: np.arange(shift, (N_segments - 2 + 1)*shift, shift)
InteriorFractions(shift, N) == ARange(shift, FlMul(I(N - 2 + 1), shift), shift)

\* X_mid = X_min + Range * concatenate([0.5 span], 0.5 span + arange, [1 - 0.5 span])
XMid(X_min, Range, span, shift, N) ==
    LET half  == FlMul(Num(1, 2), span)
        mid   == InteriorFractions(shift, N)
        fr    == <<half>> \o [p \in 1..Len(mid) |-> FlAdd(half, mid[p])]
                     \o <<FlSub(I(1), half)>>
    IN  [p \in 1..Len(fr) |-> FlAdd(X_min, FlMul(Range, fr[p]))]

\* a window that leaves out the samples on its two ends
SegWindowOpen(X, center, Width) ==
    SelectIdx(X, LAMBDA v : /\ FGt(v, FlSub(center, FlMul(Num(1, 2), Width)))
                            /\ FLt(v, FlAdd(center, FlMul(Num(1, 2), Width))), 1)

\* idx_seg: the samples within +-0.5*Width of the center
SegWindow(X, center, Width) ==
    InWindow(X, FlSub(center, FlMul(Num(1, 2), Width)),
                FlAdd(center, FlMul(Num(1, 2), Width)))

\* np.polyfit(X[idx_seg], Y[idx_seg], 1)
SegFit(X, Y, center, Width) ==
    Polyfit(Take(X, SegWindow(X, center, Width)),
            Take(Y, SegWindow(X, center, Width)))

\* the fits of the first n centers, in index order
SegFits(X, Y, centers, n, Width) ==
    [j \in 1..n |-> SegFit(X, Y, centers[j], Width)]

Slopes(fits) == [p \in 1..Len(fits) |-> fits[p].c0]

\* Coffset = (C0 - C) * 100 / C0, elementwise
OffsetOf(c0, C) == [p \in 1..Len(C) |-> FDiv(FMul(FSub(c0, C[p]), I(100)), c0)]

\* X_mid_fine = np.arange(X_mid[0], X_mid[1] + Range*shift1/2, Range*shift1)
XMidFine(X_mid, Range, shift1) ==
    ARange(X_mid[1], FlAdd(X_mid[2], FlDiv(FlMul(Range, shift1), I(2))),
           FlMul(Range, shift1))

\* the trimming of the loading arm: if X[0] > X_min, drop what precedes the
\* sample nearest X_min
TrimStart(X, X_min) ==
    IF FGt(X[1], X_min)
    THEN ArgMin([p \in 1..Len(X) |-> FAbs(FSub(X[p], X_min))])
    ELSE 0

\* Coffset_Xmin = (X_min - coeff_extrap[1]) / coeff_extrap[0]
AtXmin(X_min, coeff_extrap) ==
    IF coeff_extrap.st = "steep" THEN coeff_extrap.c1
    ELSE FDiv(FSub(X_min, coeff_extrap.c1), coeff_extrap.c0)

\* Coffset1[2:] and X_mid[2:]
Beyond(xs) == SliceFrom(xs, 2)

\* np.concatenate(([first], fine, coarse[2:]))
Assemble(first, fine, coarse) == <<first>> \o fine \o Beyond(coarse)

(***************************************************************************)
(* Values a Python name may hold: None, a float, or an array               *)
(***************************************************************************)
None == [t |-> "None", a |-> <<>>, f |-> NaN]

Arr(xs) == [t |-> "array", a |-> xs, f |-> NaN]

Flt(v) == [t |-> "float", a |-> <<>>, f |-> v]

Idx(i) == [t |-> "int", a |-> <<>>, f |-> I(i)]

(***************************************************************************)
(* Input series for the compliance script: two arms read from the sheet    *)
(***************************************************************************)
\* samples per arm
NPts == 21

\* largest compliance (displacement per unit force) of a synthetic arm
MaxC == 2

\* largest displacement intercept of a synthetic arm
MaxB == 1

\* force step of the sparsely sampled arm
Stride == 5

Ramp(n) == [p \in 1..n |-> I(p - 1)]

\* 0, Stride, 2*Stride, ... below n
Sparse(n) == [p \in 1..(1 + (n - 1) \div Stride) |-> I((p - 1) * Stride)]

Rev(xs) == [p \in 1..Len(xs) |-> xs[Len(xs) + 1 - p]]

Halved(xs) == [p \in 1..Len(xs) |-> FDiv(xs[p], I(2))]

\* displacement = C*force + b
Line(X, C, b) == [p \in 1..Len(X) |-> FAdd(FMul(I(C), X[p]), I(b))]

\* a crack-closure curve: compliance C above the knee force, C/2 below it
Closure(X, C, knee) ==
    [p \in 1..Len(X) |->
        IF FGe(X[p], I(knee)) THEN FMul(I(C), X[p])
        ELSE FAdd(FMul(Num(C, 2), X[p]), Num(C * knee, 2))]

\* a sheet of two columns per arm; it stores half the total displacement
Sheet(fl, dl, ful, dul) ==
    [fl |-> fl, dl |-> Halved(dl), ful |-> ful, dul |-> Halved(dul)]

\* both arms on the one line displacement = C*force + b
LinearSheet(X, C, b) == Sheet(X, Line(X, C, b), Rev(X), Line(Rev(X), C, b))

\* closure on the loading arm and on the unloading arm
ClosureSheet(X, C) ==
    Sheet(X, Closure(X, C, NPts \div 3), Rev(X), Closure(Rev(X), C, NPts \div 4))

\* a loading arm that starts above its minimum, and a row with a missing
\* displacement at the end of the unloading arm
LeadInSheet(X, C) ==
    Sheet(<<I(2), I(1)>> \o X, Line(<<I(2), I(1)>> \o X, C, 0),
          Rev(X) \o <<I(0)>>, Line(Rev(X), C, 0) \o <<NaN>>)

COSheets ==
    {LinearSheet(Ramp(NPts), C, b) : C \in 1..MaxC, b \in 0..MaxB}
        \cup {LinearSheet(Sparse(NPts), C, 0) : C \in 1..MaxC}
        \cup {ClosureSheet(Ramp(NPts), C) : C \in 1..MaxC}
        \cup {LeadInSheet(Ramp(NPts), C) : C \in 1..MaxC}

\* largest span, in tenths of the range
MaxSpanTenths == 3

\* largest coarse step, in twentieths of the range
MaxShiftTwentieths == 4

\* largest fine step, in fortieths of the range
MaxShift1Fortieths == 3

\* params = [span, shift, shift1, HL, F]; HL = 1 and F = 0.25 as in the script
COParams ==
    {<<Lit(a, 10), Lit(b, 20), Lit(c, 40), I(1), Lit(1, 4)>> :
        a \in 1..MaxSpanTenths, b \in 1..MaxShiftTwentieths,
        c \in 1..MaxShift1Fortieths}

(***************************************************************************)
(* State of the compliance script (src/compliance-ok.py)                   *)
(***************************************************************************)
VARIABLES
    forces_l, displacements_l, forces_ul, displacements_ul,
    forces_l_clean, displacements_l_clean,
    forces_ul_clean, displacements_ul_clean,
    params, opt, lin,
    co_pc, co_err, C0, arm_i,
    X, Y, X_min, N_segments, X_mid, Coffset1, X_mid_fine, Coffset2,
    Coffset_Xmin,
    Xseg_l, Coffset_l, Xseg_ul, Coffset_ul

coInputs == <<forces_l, displacements_l, forces_ul, displacements_ul,
              params, opt>>

coClean == <<forces_l_clean, displacements_l_clean,
             forces_ul_clean, displacements_ul_clean>>

coArm == <<X, Y, X_min>>

coGrid == <<N_segments, X_mid>>

coReturned == <<Xseg_l, Coffset_l, Xseg_ul, Coffset_ul>>

coVars == <<coInputs, coClean, lin, co_pc, co_err, C0, arm_i, coArm, coGrid,
            Coffset1, X_mid_fine, Coffset2, Coffset_Xmin, coReturned>>

(***************************************************************************)
(* State of the post-processing script (src/post-process.py)               *)
(***************************************************************************)
VARIABLES
    forces, displacements, cycle, force_min, cal,
    forces_clean, displacements_clean, peaks,
    pp_pc, pp_err,
    start, end, forces_cycle, disps_cycle,
    load_start, load_end, loading_forces, loading_disps,
    release_start, release_end, unloading_forces, unloading_disps,
    slopes, slopes_clean, unloading_disps_clean, loading_disps_clean,
    xreg, yreg, slope1, intercept1, xreg2, yreg2, slope2, intercept2,
    x_intersect, y_intersect,
    xreg1l, yreg1l, slope1l, intercept1l, xreg2l, yreg2l, slope2l, intercept2l,
    x_intersectl, y_intersectl,
    closure_force, sigma_cl, opening_force, sigma_op

ppInputs == <<forces, displacements, cycle, force_min, cal>>

ppClean == <<forces_clean, displacements_clean>>

ppSlice == <<start, end, forces_cycle, disps_cycle>>

ppLoad == <<load_start, load_end, loading_forces, loading_disps>>

ppUnload == <<release_start, release_end, unloading_forces, unloading_disps>>

ppStiff == <<slopes, slopes_clean, unloading_disps_clean, loading_disps_clean>>

ppFit1 == <<xreg, yreg, slope1, intercept1>>

ppFit2 == <<xreg2, yreg2, slope2, intercept2>>

ppCross == <<x_intersect, y_intersect>>

ppFit1l == <<xreg1l, yreg1l, slope1l, intercept1l>>

ppFit2l == <<xreg2l, yreg2l, slope2l, intercept2l>>

ppCrossl == <<x_intersectl, y_intersectl>>

ppClosure == <<closure_force, sigma_cl>>

ppOpening == <<opening_force, sigma_op>>

ppVars == <<ppInputs, ppClean, peaks, pp_pc, pp_err, ppSlice, ppLoad, ppUnload,
            ppStiff, ppFit1, ppFit2, ppCross, ppFit1l, ppFit2l, ppCrossl,
            ppClosure, ppOpening>>

(***************************************************************************)
(* State of the multi-file comparison (src/compliance_comparaison.py)      *)
(***************************************************************************)
VARIABLES
    files, file_i, results_loading, results_unloading, cmp_pc, cmp_err

cmpVars == <<files, file_i, results_loading, results_unloading, cmp_pc, cmp_err>>

(***************************************************************************)
(* State of the step builder (src/picc_common/cyclic_loading.py)           *)
(***************************************************************************)
VARIABLES
    cl_params,    \* the loading parameters of the call
    cl_pc,        \* the loop the builder is in
    cl_cycle,     \* cycle of create_cyclic_loading's loop (0-based)
    cl_sub,       \* substep of the running loop (0-based)
    cl_steps,     \* model.steps in order of creation: name and previous
    cl_load,      \* the step names in which CyclicLoad was given a value
    cl_err        \* the StaticStep call that raised, if any

clVars == <<cl_params, cl_pc, cl_cycle, cl_sub, cl_steps, cl_load, cl_err>>

(***************************************************************************)
(* State of the job driver (src/automate.py) and of the solvers it starts  *)
(***************************************************************************)
VARIABLES
    jb_total,     \* total_jobs
    jb_counter,   \* job_counter
    jb_pc,        \* the statement the driver is at
    jb_solver,    \* per job: the state of the solver started for it
    jb_lck,       \* the jobs whose .lck file exists
    jb_out        \* what the driver printed, in order

jobVars == <<jb_total, jb_counter, jb_pc, jb_solver, jb_lck, jb_out>>

vars == <<coVars, ppVars, cmpVars, clVars, jobVars>>

\* the step builder is not run
CLIdle ==
    /\ cl_params = <<>>
    /\ cl_pc = "idle"
    /\ cl_cycle = 0
    /\ cl_sub = 0
    /\ cl_steps = <<>>
    /\ cl_load = {}
    /\ cl_err = <<>>

\* the job driver is not run
JobIdle ==
    /\ jb_total = 0
    /\ jb_counter = 0
    /\ jb_pc = "idle"
    /\ jb_solver = <<>>
    /\ jb_lck = {}
    /\ jb_out = <<>>

\* the comparison script is not run
CmpIdle ==
    /\ files = <<>>
    /\ file_i = 0
    /\ results_loading = {}
    /\ results_unloading = {}
    /\ cmp_pc = "idle"
    /\ cmp_err = "none"

\* every name of the post-processing script before its first assignment
PPUnbound ==
    /\ forces_clean = <<>>
    /\ displacements_clean = <<>>
    /\ peaks = <<>>
    /\ pp_err = "none"
    /\ start = None
    /\ end = None
    /\ forces_cycle = None
    /\ disps_cycle = None
    /\ load_start = None
    /\ load_end = None
    /\ loading_forces = None
    /\ loading_disps = None
    /\ release_start = None
    /\ release_end = None
    /\ unloading_forces = None
    /\ unloading_disps = None
    /\ slopes = None
    /\ slopes_clean = None
    /\ unloading_disps_clean = None
    /\ loading_disps_clean = None
    /\ xreg = None
    /\ yreg = None
    /\ slope1 = None
    /\ intercept1 = None
    /\ xreg2 = None
    /\ yreg2 = None
    /\ slope2 = None
    /\ intercept2 = None
    /\ x_intersect = None
    /\ y_intersect = None
    /\ xreg1l = None
    /\ yreg1l = None
    /\ slope1l = None
    /\ intercept1l = None
    /\ xreg2l = None
    /\ yreg2l = None
    /\ slope2l = None
    /\ intercept2l = None
    /\ x_intersectl = None
    /\ y_intersectl = None
    /\ closure_force = None
    /\ sigma_cl = None
    /\ opening_force = None
    /\ sigma_op = None

\* the post-processing script is not run
PPIdle ==
    /\ forces = <<>>
    /\ displacements = <<>>
    /\ cycle = 0
    /\ force_min = I(0)
    /\ cal = None
    /\ pp_pc = "idle"
    /\ PPUnbound

\* the names bound at the call site (lines 165-171) and inside the function
Xl == forces_l_clean

Yl == displacements_l_clean

Xul == forces_ul_clean

Yul == displacements_ul_clean

Xl_min == FMinSeq(Xl)

X_max == FMaxSeq(Xl)

Xul_min == FMinSeq(Xul)

span == params[1]

shift == params[2]

shift1 == params[3]

HL == params[4]

F == params[5]

Range == FlSub(X_max, X_min)

Width == FlMul(Range, span)

\* a mask that looks at the forces only
ForceMask(f, d) == SelectIdx(f, LAMBDA r : ~IsNaN(r), 1)

\* mask = ~(isnan(f) | isnan(d)): the positions kept by the cleaning
NotNaNMask(f, d) ==
    SelectIdx([p \in 1..Len(f) |-> <<f[p], d[p]>>],
              LAMBDA r : ~(IsNaN(r[1]) \/ IsNaN(r[2])), 1)

\* displacements * 2.0
Doubled(d) == [p \in 1..Len(d) |-> FMul(d[p], I(2))]

\* every name of the compliance script before its first assignment
COUnbound ==
    /\ lin = "unknown"
    /\ forces_l_clean = <<>>
    /\ displacements_l_clean = <<>>
    /\ forces_ul_clean = <<>>
    /\ displacements_ul_clean = <<>>
    /\ co_err = "none"
    /\ C0 = NaN
    /\ arm_i = 0
    /\ X = <<>>
    /\ Y = <<>>
    /\ X_min = NaN
    /\ N_segments = 0
    /\ X_mid = <<>>
    /\ Coffset1 = <<>>
    /\ X_mid_fine = <<>>
    /\ Coffset2 = <<>>
    /\ Coffset_Xmin = NaN
    /\ Xseg_l = None
    /\ Coffset_l = None
    /\ Xseg_ul = None
    /\ Coffset_ul = None

\* the compliance script is not run
COIdle ==
    /\ forces_l = <<>>
    /\ displacements_l = <<>>
    /\ forces_ul = <<>>
    /\ displacements_ul = <<>>
    /\ params = <<>>
    /\ opt = 0
    /\ co_pc = "idle"
    /\ COUnbound

COInit ==
    /\ \E sh \in COSheets :
          /\ forces_l = sh.fl
          /\ displacements_l = sh.dl
          /\ forces_ul = sh.ful
          /\ displacements_ul = sh.dul
    /\ params \in COParams
    /\ opt \in {1, 2}
    /\ co_pc = "read"
    /\ COUnbound
    /\ PPIdle
    /\ CmpIdle
    /\ CLIdle
    /\ JobIdle

\* lines 52-70: double the displacements, drop the rows holding a NaN
CO_Clean ==
    /\ UNCHANGED <<ppVars, cmpVars, clVars, jobVars>>
    /\ co_pc = "read"
    /\ forces_l_clean' = Take(forces_l, NotNaNMask(forces_l, Doubled(displacements_l)))
    /\ displacements_l_clean' =
           Take(Doubled(displacements_l),
                NotNaNMask(forces_l, Doubled(displacements_l)))
    /\ forces_ul_clean' =
           Take(forces_ul, NotNaNMask(forces_ul, Doubled(displacements_ul)))
    /\ displacements_ul_clean' =
           Take(Doubled(displacements_ul),
                NotNaNMask(forces_ul, Doubled(displacements_ul)))
    /\ co_pc' = "call"
    /\ UNCHANGED <<coInputs, lin, co_err, C0, arm_i, coArm, coGrid, Coffset1,
                   X_mid_fine, Coffset2, Coffset_Xmin, coReturned>>

\* a step that made the fits `fits` on build b: it goes on to `next` with
\* the build known, or raises the first exception
FitStep(fits, b, next) ==
    /\ lin' = IF AnyUndefined(fits) THEN b ELSE lin
    /\ IF FirstFailure(fits, b) = "ok"
       THEN /\ co_pc' = next
            /\ UNCHANGED co_err
       ELSE /\ co_pc' = "raised"
            /\ co_err' = FirstFailure(fits, b)

\* lines 95-105: the reference (fully open) compliance C0
CO_Reference ==
    /\ UNCHANGED <<ppVars, cmpVars, clVars, jobVars>>
    /\ co_pc = "call"
    /\ \E b \in Builds(lin) :
       \E coeffs \in {Polyfit(Take(Xul, RefWindow(Xul, Xul_min, X_max, HL, F)),
                              Take(Yul, RefWindow(Xul, Xul_min, X_max, HL, F)))} :
          /\ FitStep(<<coeffs>>, b, "grid")
          /\ C0' = IF FirstFailure(<<coeffs>>, b) = "ok" THEN coeffs.c0 ELSE C0
    /\ arm_i' = 1
    /\ UNCHANGED <<coInputs, coClean, coArm, coGrid, Coffset1, X_mid_fine,
                   Coffset2, Coffset_Xmin, coReturned>>

\* lines 106-125: select the arm, trim the loading arm, lay out the grid
CO_Grid ==
    /\ UNCHANGED <<ppVars, cmpVars, clVars, jobVars>>
    /\ co_pc = "grid"
    /\ arm_i <= opt
    /\ \E arm \in {IF arm_i = 1
                   THEN [X |-> SliceFrom(Xl, TrimStart(Xl, Xl_min)),
                         Y |-> SliceFrom(Yl, TrimStart(Xl, Xl_min)),
                         X_min |-> Xl_min]
                   ELSE [X |-> Xul, Y |-> Yul, X_min |-> Xul_min]} :
          /\ X' = arm.X
          /\ Y' = arm.Y
          /\ X_min' = arm.X_min
          /\ N_segments' = NSegments(span, shift)
          /\ X_mid' = XMid(arm.X_min, FlSub(X_max, arm.X_min), span, shift,
                           NSegments(span, shift))
    /\ co_pc' = "coarse"
    /\ UNCHANGED <<coInputs, coClean, lin, co_err, C0, arm_i, Coffset1,
                   X_mid_fine, Coffset2, Coffset_Xmin, coReturned>>

\* lines 127-133: the compliance of every coarse segment and its offset
CO_Coarse ==
    /\ UNCHANGED <<ppVars, cmpVars, clVars, jobVars>>
    /\ co_pc = "coarse"
    /\ \E b \in Builds(lin) :
       \E fits \in {SegFits(X, Y, X_mid, N_segments, Width)} :
          /\ FitStep(fits, b, "fine")
          /\ Coffset1' = IF FirstFailure(fits, b) = "ok"
                         THEN OffsetOf(C0, Slopes(fits)) ELSE Coffset1
    /\ UNCHANGED <<coInputs, coClean, C0, arm_i, coArm, coGrid, X_mid_fine,
                   Coffset2, Coffset_Xmin, coReturned>>

\* lines 135-142: the fine grid between the first two coarse centers
CO_Fine ==
    /\ UNCHANGED <<ppVars, cmpVars, clVars, jobVars>>
    /\ co_pc = "fine"
    /\ \E b \in Builds(lin) :
       \E fine \in {XMidFine(X_mid, Range, shift1)} :
       \E fits \in {SegFits(X, Y, fine, Len(fine), Width)} :
          /\ FitStep(fits, b, "extrapolate")
          /\ X_mid_fine' = fine
          /\ Coffset2' = IF FirstFailure(fits, b) = "ok"
                         THEN OffsetOf(C0, Slopes(fits)) ELSE Coffset2
    /\ UNCHANGED <<coInputs, coClean, C0, arm_i, coArm, coGrid, Coffset1,
                   Coffset_Xmin, coReturned>>

\* lines 144-146: extrapolate the fine offsets to X_min
CO_Extrapolate ==
    /\ UNCHANGED <<ppVars, cmpVars, clVars, jobVars>>
    /\ co_pc = "extrapolate"
    /\ \E b \in Builds(lin) :
       \E coeff_extrap \in {Polyfit(Coffset2, X_mid_fine)} \cup Perturbed(Coffset2) :
          /\ FitStep(<<coeff_extrap>>, b, "assemble")
          /\ Coffset_Xmin' = IF FirstFailure(<<coeff_extrap>>, b) = "ok"
                             THEN AtXmin(X_min, coeff_extrap) ELSE Coffset_Xmin
    /\ UNCHANGED <<coInputs, coClean, C0, arm_i, coArm, coGrid, Coffset1,
                   X_mid_fine, Coffset2, coReturned>>

\* lines 148-155: concatenate the curve of this arm and store it
CO_Assemble ==
    /\ UNCHANGED <<ppVars, cmpVars, clVars, jobVars>>
    /\ co_pc = "assemble"
    /\ IF arm_i = 1
       THEN /\ Xseg_l' = Arr(Assemble(X_min, X_mid_fine, X_mid))
            /\ Coffset_l' = Arr(Assemble(Coffset_Xmin, Coffset2, Coffset1))
            /\ UNCHANGED <<Xseg_ul, Coffset_ul>>
       ELSE /\ Xseg_ul' = Arr(Assemble(X_min, X_mid_fine, X_mid))
            /\ Coffset_ul' = Arr(Assemble(Coffset_Xmin, Coffset2, Coffset1))
            /\ UNCHANGED <<Xseg_l, Coffset_l>>
    /\ arm_i' = arm_i + 1
    /\ co_pc' = "grid"
    /\ UNCHANGED <<coInputs, coClean, lin, co_err, C0, coArm, coGrid, Coffset1,
                   X_mid_fine, Coffset2, Coffset_Xmin>>

\* lines 157-160: opt == 1 returns NaN for the unloading outputs
CO_Return ==
    /\ UNCHANGED <<ppVars, cmpVars, clVars, jobVars>>
    /\ co_pc = "grid"
    /\ arm_i > opt
    /\ IF opt = 1
       THEN /\ Xseg_ul' = Flt(NaN)
            /\ Coffset_ul' = Flt(NaN)
       ELSE UNCHANGED <<Xseg_ul, Coffset_ul>>
    /\ co_pc' = "returned"
    /\ UNCHANGED <<coInputs, coClean, lin, co_err, C0, arm_i, coArm, coGrid,
                   Coffset1, X_mid_fine, Coffset2, Coffset_Xmin,
                   Xseg_l, Coffset_l>>

CONext ==
    \/ CO_Clean
    \/ CO_Reference
    \/ CO_Grid
    \/ CO_Coarse
    \/ CO_Fine
    \/ CO_Extrapolate
    \/ CO_Assemble
    \/ CO_Return

SpecCO == COInit /\ [][CONext]_vars

(***************************************************************************)
(* Cycle segmentation and stiffness regimes (src/post-process.py)          *)
(***************************************************************************)
RECURSIVE PlateauEnd(_, _, _)
\* i_ahead: the first 0-based index at or after a, below the last one, at
\* which x leaves the value x[i]
PlateauEnd(x, i, a) ==
    IF a < Len(x) - 1 /\ FEq(x[a + 1], x[i + 1]) THEN PlateauEnd(x, i, a + 1)
    ELSE a

RECURSIVE LocalMaximaFrom(_, _)
\* scipy's _local_maxima_1d from 0-based index i on: a strict rise into a
\* plateau that ends in a strict fall; the peak is the plateau's midpoint
\* (rounded down); the first and the last sample are never peaks
LocalMaximaFrom(x, i) ==
    IF i >= Len(x) - 1 THEN <<>>
    ELSE IF FLt(x[i], x[i + 1]) /\ FLt(x[PlateauEnd(x, i, i + 1) + 1], x[i + 1])
         THEN <<(i + PlateauEnd(x, i, i + 1) - 1) \div 2>>
                  \o LocalMaximaFrom(x, PlateauEnd(x, i, i + 1) + 1)
    ELSE LocalMaximaFrom(x, i + 1)

\* a detection without the height condition
LocalMaximaOnly(x, h) == LocalMaximaFrom(x, 1)

\* find_peaks(x, height=h): the local maxima whose value is >= h (0-based)
FindPeaks(x, h) ==
    Take(LocalMaximaFrom(x, 1),
         SelectIdx(LocalMaximaFrom(x, 1), LAMBDA q : FLe(h, x[q + 1]), 1))

\* height = np.max(forces_clean)*0.8
PeakHeight(x) == FlMul(FMaxSeq(x), Lit(8, 10))

RECURSIVE FirstAtOrBelow(_, _, _, _, _)
\* for i in range(from, to): if x[i] <= level: return i;  otherwise dflt
FirstAtOrBelow(x, from, to, level, dflt) ==
    IF from >= to THEN dflt
    ELSE IF FLe(x[from + 1], level) THEN from
    ELSE FirstAtOrBelow(x, from + 1, to, level, dflt)

RECURSIVE LastAtOrBelow(_, _, _, _, _)
\* the last i in range(from, to) with x[i] <= level, otherwise dflt
LastAtOrBelow(x, from, to, level, dflt) ==
    IF from >= to THEN dflt
    ELSE IF FLe(x[to], level) THEN to - 1
    ELSE LastAtOrBelow(x, from, to - 1, level, dflt)

\* a start at the last sample at or below the threshold before the peak
CycleStartLast(x, pk, c, level) ==
    IF c = 1 THEN 0
    ELSE LastAtOrBelow(x, pk[c - 1], pk[c], level, pk[c - 1])

\* a start that does not look for the return to the threshold
CycleStartAtPeak(x, pk, c, level) == IF c = 1 THEN 0 ELSE pk[c - 1]

\* lines 101-108 and 135-143: where the cycle (the loading arm) starts
CycleStart(x, pk, c, level) ==
    IF c = 1 THEN 0
    ELSE FirstAtOrBelow(x, pk[c - 1], pk[c], level, pk[c - 1])

\* an end at the last sample at or below the threshold after the peak
CycleEndLast(x, pk, c, level) ==
    LastAtOrBelow(x, pk[c], Len(x), level, pk[c])

\* an end that falls back on the last sample when there is no return
CycleEndOfRecord(x, pk, c, level) ==
    FirstAtOrBelow(x, pk[c], Len(x), level, Len(x) - 1)

\* lines 110-116 and 167-173: the first return to the threshold at or after
\* the peak of the cycle, or the peak itself when there is none
CycleEnd(x, pk, c, level) ==
    FirstAtOrBelow(x, pk[c], Len(x), level, pk[c])

\* bounds that fall back on the last detected cycle
CycleBoundsLast(x, pk, c, level) ==
    IF Len(pk) = 0 THEN [st |-> "IndexError", start |-> None, end |-> None]
    ELSE [st |-> "ok",
          start |-> Idx(CycleStart(x, pk, IF c > Len(pk) THEN Len(pk) ELSE c, level)),
          end |-> Idx(CycleEnd(x, pk, IF c > Len(pk) THEN Len(pk) ELSE c, level))]

\* lines 98-116: start and end of the cycle.  With fewer peaks than cycle,
\* peaks[cycle - 1] raises IndexError: before `end` is assigned, and after
\* `start = 0` (cycle 1) or `start = peaks[cycle - 2]` (when that peak exists)
CycleBounds(x, pk, c, level) ==
    IF c > Len(pk)
    THEN [st |-> "IndexError",
          start |-> IF c = 1 THEN Idx(0)
                    ELSE IF c - 1 <= Len(pk) THEN Idx(pk[c - 1]) ELSE None,
          end |-> None]
    ELSE [st |-> "ok", start |-> Idx(CycleStart(x, pk, c, level)),
          end |-> Idx(CycleEnd(x, pk, c, level))]

\* np.gradient of an array of >= 2 samples with unit spacing: one-sided
\* differences at the two ends, central differences inside
Gradient(a) ==
    [q \in 1..Len(a) |->
        IF q = 1 THEN FSub(a[2], a[1])
        ELSE IF q = Len(a) THEN FSub(a[Len(a)], a[Len(a) - 1])
        ELSE FDiv(FSub(a[q + 1], a[q - 1]), I(2))]

\* slopes = dF / dU
Stiffness(forces_arm, disps_arm) ==
    [q \in 1..Len(forces_arm) |->
        FDiv(Gradient(forces_arm)[q], Gradient(disps_arm)[q])]

\* ~np.isnan(v) & ~np.isinf(v)
MaskValid(v) == SelectIdx(v, LAMBDA z : IsNum(z), 1)

\* LinearRegression().fit(x, y): check_array rejects an empty or a
\* non-finite input with ValueError; the fit centers x, so a constant x
\* gives slope 0 and the mean of y as intercept
LinearRegression(x, y) ==
    IF Len(x) = 0 \/ ~AllFinite(x) \/ ~AllFinite(y)
    THEN FitResult("ValueError", NaN, NaN)
    ELSE IF AllSame(x) THEN FitResult("ok", I(0), FMean(y))
    ELSE OLS(x, y)

\* an intersection that answers 0 for parallel lines
IntersectXGuess(m1, b1, m2, b2) ==
    IF m1 # m2 THEN Flt(FDiv(FSub(b2, b1), FSub(m1, m2))) ELSE Flt(I(0))

\* an intersection with the intercepts exchanged
IntersectXSwapped(m1, b1, m2, b2) ==
    IF m1 # m2 THEN Flt(FDiv(FSub(b1, b2), FSub(m1, m2))) ELSE None

\* lines 323-328: the intersection of y = m1 x + b1 and y = m2 x + b2
IntersectX(m1, b1, m2, b2) ==
    IF m1 # m2 THEN Flt(FDiv(FSub(b2, b1), FSub(m1, m2))) ELSE None

IntersectY(m1, b1, xi) ==
    IF xi # None THEN Flt(FAdd(FMul(m1, xi.f), b1)) ELSE None

\* which branch of the lookup a target displacement takes
LookupBranch(disps_arm, disp_target) ==
    IF FLe(FMinSeq(disps_arm), disp_target) /\ FLe(disp_target, FMaxSeq(disps_arm))
    THEN "inside"
    ELSE IF FLt(disp_target, FMinSeq(disps_arm)) THEN "below"
    ELSE "above"

\* the last of the nearest samples, 0-based
ClosestIdxLast(disps_arm, disp_target) ==
    Len(disps_arm) - 1 -
        ArgMin(Rev([q \in 1..Len(disps_arm) |-> FAbs(FSub(disps_arm[q], disp_target))]))

\* closest_idx = np.argmin(np.abs(disps - disp_target)), 0-based
ClosestIdx(disps_arm, disp_target) ==
    ArgMin([q \in 1..Len(disps_arm) |-> FAbs(FSub(disps_arm[q], disp_target))])

\* a lookup that takes the nearest sample whatever the branch
ForceAtNearest(forces_arm, disps_arm, disp_target) ==
    forces_arm[ClosestIdx(disps_arm, disp_target) + 1]

\* the force the lookup prints: the nearest sample inside the range, the
\* first sample below it, the last sample above it
ForceAt(forces_arm, disps_arm, disp_target) ==
    IF LookupBranch(disps_arm, disp_target) = "inside"
    THEN forces_arm[ClosestIdx(disps_arm, disp_target) + 1]
    ELSE IF LookupBranch(disps_arm, disp_target) = "below" THEN forces_arm[1]
    ELSE forces_arm[Len(forces_arm)]

\* a ratio to the first sample of the arm
RatioToFirst(force, forces_arm) == FDiv(force, forces_arm[1])

\* force / np.max(forces of the arm)
RatioOf(force, forces_arm) == FDiv(force, FMaxSeq(forces_arm))

\* a mask applied to the stiffness array alone: the displacements keep
\* their first entries
MaskedSlopesOnly(p, idx) == [d |-> SubSeq(p.d, 1, Len(idx)), s |-> Take(p.s, idx)]

\* a displacement array and a stiffness array masked together: every mask
\* is computed from one of the two and indexes both
Masked(p, idx) == [d |-> Take(p.d, idx), s |-> Take(p.s, idx)]

\* mask = slopes <= v
MaskSlopesLe(p, v) == Masked(p, SelectIdx(p.s, LAMBDA z : FLe(z, v), 1))

\* mask2 = slopes >= v
MaskSlopesGe(p, v) == Masked(p, SelectIdx(p.s, LAMBDA z : FGe(z, v), 1))

\* mask_second_part2 = slopes > v
MaskSlopesGt(p, v) == Masked(p, SelectIdx(p.s, LAMBDA z : FGt(z, v), 1))

\* mask_first_part = disps < v
MaskDispsLt(p, v) == Masked(p, SelectIdx(p.d, LAMBDA z : FLt(z, v), 1))

\* mask_first_part2, mask_second_part = disps > v
MaskDispsGt(p, v) == Masked(p, SelectIdx(p.d, LAMBDA z : FGt(z, v), 1))

\* xreg, yreg = disps[mask_valid], slopes[mask_valid]
MaskFinite(p) == Masked(p, MaskValid(p.s))

\* slopes_clean and the displacements kept with it (lines 215-217)
SlopesClean(disps_arm, stiff, c) ==
    MaskSlopesLe([d |-> disps_arm, s |-> stiff], c.max_slopes1)

\* the samples of the first regime (lines 219-244): slopes in
\* [min_slopes1, max_slopes1], displacement in (min_disps1, max_disps1)
Regime1(disps_arm, stiff, c) ==
    MaskFinite(MaskDispsGt(MaskDispsLt(MaskSlopesGe(
        SlopesClean(disps_arm, stiff, c), c.min_slopes1), c.max_disps1),
        c.min_disps1))

\* the samples of the second regime (lines 274-299), taken from slopes_clean:
\* slopes >= min_slopes2, displacement > min_disps2, then slopes > min_slopes2
Regime2(clean, c) ==
    MaskFinite(MaskSlopesGt(MaskDispsGt(MaskSlopesGe(clean, c.min_slopes2),
        c.min_disps2), c.min_slopes2))

(***************************************************************************)
(* Input series for the post-processing script                             *)
(***************************************************************************)
\* largest cycle number asked for
MaxCycle == 4

Ints(xs) == [q \in 1..Len(xs) |-> I(xs[q])]

\* One fatigue cycle sampled at total displacements 0..9 (loading), 10..1
\* (unloading) and 0 (unloaded).  The stiffness dF/dU of the loading arm of
\* LoadIn lies on y = 2x + 1 for x < 5 and on y = -x + 20 for x > 5; the
\* two lines of LoadBelow meet below the arm, those of LoadAbove above it.
LoadIn == Ints(<<0, 1, 6, 11, 20, 29, 44, 57, 70, 81>>)

LoadBelow == Ints(<<0, 5, 12, 19, 28, 37, 53, 73, 93, 117>>)

LoadAbove == Ints(<<0, 1, 6, 11, 20, 29, 46, 65, 84, 105>>)

\* unloading arms, from the peak down; stiffness on y = 2x - 1 and
\* y = -x + 21 (UnloadIn), meeting below (UnloadBelow) or above the arm
UnloadIn == Ints(<<91, 80, 67, 54, 39, 30, 21, 16, 11, 10>>)

UnloadBelow == Ints(<<127, 103, 83, 63, 47, 38, 29, 22, 15, 10>>)

UnloadAbove == Ints(<<115, 94, 75, 56, 39, 30, 21, 16, 11, 10>>)

\* the same arm under a higher load
Raised20(xs) == [q \in 1..Len(xs) |-> FAdd(xs[q], I(20))]

CycleDisps == Ints(<<0, 1, 2, 3, 4, 5, 6, 7, 8, 9, 10, 9, 8, 7, 6, 5, 4, 3, 2, 1, 0>>)

\* the force and displacement columns of one cycle; the sheet stores half
\* the total displacement
CycleOf(load, unload) ==
    [forces |-> load \o unload \o <<I(0)>>, displacements |-> Halved(CycleDisps)]

Joined(a, b) ==
    [forces |-> a.forces \o b.forces,
     displacements |-> a.displacements \o b.displacements]

\* the triangular series 0, 10, ..., 100, 90, ..., 0
Triangle == [forces |-> [q \in 1..Len(CycleDisps) |-> FMul(I(10), CycleDisps[q])],
             displacements |-> Halved(CycleDisps)]

\* the rising half of the triangle: a series without a peak
Rising == [forces |-> SubSeq(Triangle.forces, 1, 11),
           displacements |-> SubSeq(Triangle.displacements, 1, 11)]

\* one cycle with a local maximum below the peak threshold (30, at index 1)
\* and a flat top (100 at the indices 10 and 11)
FlatTop ==
    [forces |-> Ints(<<0, 30, 20, 30, 40, 50, 60, 70, 80, 90, 100,
                       100, 90, 80, 70, 60, 50, 40, 30, 20, 10, 0>>),
     displacements |-> Halved(Ints(<<0, 1, 2, 3, 4, 5, 6, 7, 8, 9, 10,
                                     10, 9, 8, 7, 6, 5, 4, 3, 2, 1, 0>>))]

\* a sheet with two more rows after row 5: one whose force is missing, one
\* whose displacement is missing
WithGap(sh) ==
    [forces |-> SubSeq(sh.forces, 1, 5) \o <<NaN, I(1)>>
                    \o SubSeq(sh.forces, 6, Len(sh.forces)),
     displacements |-> SubSeq(sh.displacements, 1, 5) \o <<I(1), NaN>>
                    \o SubSeq(sh.displacements, 6, Len(sh.displacements))]

\* a sheet whose row 3 holds a displacement above half the largest float:
\* the doubling of line 46 overflows to inf, written here as the inf it becomes
WithOverflow(sh) ==
    [forces |-> sh.forces,
     displacements |-> [q \in 1..Len(sh.displacements) |->
                           IF q = 3 THEN PInf ELSE sh.displacements[q]]]

Twice(c) == Joined(c, c)

\* a record under a load ratio R > 0: the force never returns to force_min
NoReturn(sh) == [forces |-> Raised20(sh.forces), displacements |-> sh.displacements]

PPSheets ==
    {Joined(Triangle, Twice(Triangle)),
     Rising,
     FlatTop,
     Twice(CycleOf(LoadIn, UnloadIn)),
     NoReturn(Twice(CycleOf(LoadIn, UnloadIn))),
     WithGap(Twice(CycleOf(LoadIn, UnloadIn))),
     WithOverflow(Twice(CycleOf(LoadIn, UnloadIn))),
     Twice(CycleOf(LoadBelow, UnloadBelow)),
     Twice(CycleOf(LoadAbove, Raised20(UnloadIn))),
     Twice(CycleOf(LoadIn, UnloadAbove))}

\* the thresholds of one arm
Cal(max_s1, min_s1, max_d1, min_d1, min_s2, min_d2) ==
    [max_slopes1 |-> max_s1, min_slopes1 |-> min_s1,
     max_disps1 |-> max_d1, min_disps1 |-> min_d1,
     min_slopes2 |-> min_s2, min_disps2 |-> min_d2]

\* the literals of the script (lines 209-213, 269-272, 412-416, 472-475)
ScriptCal ==
    [ul |-> Cal(I(150000), I(0), Lit(20, 1000), Lit(5, 1000), I(0), Lit(20, 1000)),
     l  |-> Cal(I(150000), I(0), Lit(10, 1000), I(0), I(135580), Lit(10, 1000))]

\* thresholds in the units of the synthetic cycles: two regimes per arm
TwoRegimes ==
    [ul |-> Cal(I(150000), I(0), I(6), I(0), I(0), I(6)),
     l  |-> Cal(I(150000), I(0), I(5), I(-1), I(0), I(5))]

\* thresholds that hand the same samples to both fits of one arm
SameRegimeUl ==
    [ul |-> Cal(I(9), I(0), I(6), I(0), I(0), I(0)), l |-> TwoRegimes.l]

SameRegimeL ==
    [ul |-> TwoRegimes.ul, l |-> Cal(I(9), I(0), I(5), I(-1), I(0), I(-1))]

\* thresholds met exactly by samples of the unloading arm: a stiffness equal
\* to min_slopes1, a displacement equal to max_disps1, and a stiffness equal
\* to min_slopes2 that leaves one sample to the second regime
OnTheBounds ==
    [ul |-> Cal(I(150000), I(3), I(6), I(0), I(13), I(6)), l |-> TwoRegimes.l]

PPCals == {ScriptCal, TwoRegimes, SameRegimeUl, SameRegimeL, OnTheBounds}

ForceMins == {I(0), I(5)}

(***************************************************************************)
(* The post-processing script, statement group by statement group          *)
(***************************************************************************)
PPInit ==
    /\ \E sh \in PPSheets :
          /\ forces = sh.forces
          /\ displacements = sh.displacements
    /\ cycle \in 1..MaxCycle
    /\ force_min \in ForceMins
    /\ cal \in PPCals
    /\ pp_pc = "read"
    /\ PPUnbound
    /\ COIdle
    /\ CmpIdle
    /\ CLIdle
    /\ JobIdle

\* the script goes on to the next statement group
Goto(next) == pp_pc' = next /\ UNCHANGED pp_err

\* an uncaught exception ends the script
Raise(exc) == pp_pc' = "raised" /\ pp_err' = exc

\* lines 41-55: double the displacements, drop the rows holding a NaN
PP_Clean ==
    /\ pp_pc = "read"
    /\ forces_clean' = Take(forces, NotNaNMask(forces, Doubled(displacements)))
    /\ displacements_clean' =
           Take(Doubled(displacements), NotNaNMask(forces, Doubled(displacements)))
    /\ Goto("peaks")
    /\ UNCHANGED <<ppInputs, peaks, ppSlice, ppLoad, ppUnload, ppStiff, ppFit1,
                   ppFit2, ppCross, ppFit1l, ppFit2l, ppCrossl, ppClosure,
                   ppOpening, coVars, cmpVars,
                   clVars, jobVars>>

\* lines 59-63: the cycle peaks; np.max of an empty array raises ValueError
PP_FindPeaks ==
    /\ pp_pc = "peaks"
    /\ IF Len(forces_clean) = 0
       THEN Raise("ValueError") /\ UNCHANGED peaks
       ELSE /\ peaks' = FindPeaks(forces_clean, PeakHeight(forces_clean))
            /\ Goto("slice")
    /\ UNCHANGED <<ppInputs, ppClean, ppSlice, ppLoad, ppUnload, ppStiff, ppFit1,
                   ppFit2, ppCross, ppFit1l, ppFit2l, ppCrossl, ppClosure,
                   ppOpening, coVars, cmpVars,
                   clVars, jobVars>>

\* lines 98-121: the samples of the cycle
PP_CycleSlice ==
    /\ pp_pc = "slice"
    /\ \E cb \in {CycleBounds(forces_clean, peaks, cycle, force_min)} :
          /\ start' = cb.start
          /\ end' = cb.end
          /\ IF cb.st # "ok"
             THEN Raise(cb.st) /\ UNCHANGED <<forces_cycle, disps_cycle>>
             ELSE /\ forces_cycle' = Arr(Slice(forces_clean, cb.start.f.n, cb.end.f.n))
                  /\ disps_cycle' =
                        Arr(Slice(displacements_clean, cb.start.f.n, cb.end.f.n))
                  /\ Goto("loading_arm")
    /\ UNCHANGED <<ppInputs, ppClean, peaks, ppLoad, ppUnload, ppStiff, ppFit1,
                   ppFit2, ppCross, ppFit1l, ppFit2l, ppCrossl, ppClosure,
                   ppOpening, coVars, cmpVars,
                   clVars, jobVars>>

\* lines 135-149: the loading arm [load_start, peaks[cycle - 1])
PP_LoadingArm ==
    /\ pp_pc = "loading_arm"
    /\ load_start' = Idx(CycleStart(forces_clean, peaks, cycle, force_min))
    /\ load_end' = Idx(peaks[cycle])
    /\ loading_forces' =
          Arr(Slice(forces_clean,
                    CycleStart(forces_clean, peaks, cycle, force_min), peaks[cycle]))
    /\ loading_disps' =
          Arr(Slice(displacements_clean,
                    CycleStart(forces_clean, peaks, cycle, force_min), peaks[cycle]))
    /\ Goto("unloading_arm")
    /\ UNCHANGED <<ppInputs, ppClean, peaks, ppSlice, ppUnload, ppStiff, ppFit1,
                   ppFit2, ppCross, ppFit1l, ppFit2l, ppCrossl, ppClosure,
                   ppOpening, coVars, cmpVars,
                   clVars, jobVars>>

\* lines 162-176: the unloading arm [peaks[cycle - 1], release_end)
PP_UnloadingArm ==
    /\ pp_pc = "unloading_arm"
    /\ release_start' = Idx(peaks[cycle])
    /\ release_end' = Idx(CycleEnd(forces_clean, peaks, cycle, force_min))
    /\ unloading_forces' =
          Arr(Slice(forces_clean, peaks[cycle],
                    CycleEnd(forces_clean, peaks, cycle, force_min)))
    /\ unloading_disps' =
          Arr(Slice(displacements_clean, peaks[cycle],
                    CycleEnd(forces_clean, peaks, cycle, force_min)))
    /\ Goto("unloading_stiffness")
    /\ UNCHANGED <<ppInputs, ppClean, peaks, ppSlice, ppLoad, ppStiff, ppFit1,
                   ppFit2, ppCross, ppFit1l, ppFit2l, ppCrossl, ppClosure,
                   ppOpening, coVars, cmpVars,
                   clVars, jobVars>>

\* lines 205-207: the stiffness dF/dU along the arm; np.gradient raises
\* ValueError on fewer than 2 samples
PP_UnloadingStiffness ==
    /\ pp_pc = "unloading_stiffness"
    /\ IF Len(unloading_forces.a) < 2 \/ Len(unloading_disps.a) < 2
       THEN Raise("ValueError") /\ UNCHANGED slopes
       ELSE /\ slopes' = Arr(Stiffness(unloading_forces.a, unloading_disps.a))
            /\ Goto("unloading_regime1")
    /\ UNCHANGED <<slopes_clean, unloading_disps_clean, loading_disps_clean>>
    /\ UNCHANGED <<ppInputs, ppClean, peaks, ppSlice, ppLoad, ppUnload,
                   ppFit1, ppFit2, ppCross, ppFit1l, ppFit2l, ppCrossl,
                   ppClosure, ppOpening, coVars, cmpVars,
                   clVars, jobVars>>

\* lines 209-252: the first regime and its regression line
PP_UnloadingRegime1 ==
    /\ pp_pc = "unloading_regime1"
    /\ slopes_clean' = Arr(SlopesClean(unloading_disps.a, slopes.a, cal.ul).s)
    /\ unloading_disps_clean' = Arr(SlopesClean(unloading_disps.a, slopes.a, cal.ul).d)
    /\ \E r \in {Regime1(unloading_disps.a, slopes.a, cal.ul)} :
       \E fit \in {LinearRegression(r.d, r.s)} :
          /\ xreg' = Arr(r.d)
          /\ yreg' = Arr(r.s)
          /\ IF fit.st = "ok"
             THEN /\ slope1' = Flt(fit.c0)
                  /\ intercept1' = Flt(fit.c1)
                  /\ Goto("unloading_regime2")
             ELSE /\ Raise(fit.st)
                  /\ UNCHANGED <<slope1, intercept1>>
    /\ UNCHANGED <<slopes, loading_disps_clean>>
    /\ UNCHANGED <<ppInputs, ppClean, peaks, ppSlice, ppLoad, ppUnload,
                   ppFit2, ppCross, ppFit1l, ppFit2l, ppCrossl, ppClosure,
                   ppOpening, coVars, cmpVars,
                   clVars, jobVars>>

\* lines 264-308: the second regime, taken from slopes_clean, and its line
PP_UnloadingRegime2 ==
    /\ pp_pc = "unloading_regime2"
    /\ \E r \in {Regime2([d |-> unloading_disps_clean.a, s |-> slopes_clean.a], cal.ul)} :
       \E fit \in {LinearRegression(r.d, r.s)} :
          /\ xreg2' = Arr(r.d)
          /\ yreg2' = Arr(r.s)
          /\ IF fit.st = "ok"
             THEN /\ slope2' = Flt(fit.c0)
                  /\ intercept2' = Flt(fit.c1)
                  /\ Goto("unloading_intersection")
             ELSE /\ Raise(fit.st)
                  /\ UNCHANGED <<slope2, intercept2>>
    /\ UNCHANGED <<ppInputs, ppClean, peaks, ppSlice, ppLoad, ppUnload,
                   ppStiff, ppFit1, ppCross, ppFit1l, ppFit2l, ppCrossl,
                   ppClosure, ppOpening, coVars, cmpVars,
                   clVars, jobVars>>

\* lines 323-328: the intersection of the two regression lines, None when
\* their slopes are equal
PP_UnloadingIntersection ==
    /\ pp_pc = "unloading_intersection"
    /\ x_intersect' = IntersectX(slope1.f, intercept1.f, slope2.f, intercept2.f)
    /\ y_intersect' = IntersectY(slope1.f, intercept1.f,
                                IntersectX(slope1.f, intercept1.f, slope2.f, intercept2.f))
    /\ Goto("closure_force")
    /\ UNCHANGED <<ppInputs, ppClean, peaks, ppSlice, ppLoad, ppUnload,
                   ppStiff, ppFit1, ppFit2, ppFit1l, ppFit2l, ppCrossl,
                   ppClosure, ppOpening, coVars, cmpVars,
                   clVars, jobVars>>

\* lines 364-399: the closure force and its ratio.  A target of None fails the
\* range comparison with TypeError; above the range the force is printed and
\* the format specifier of line 399 raises ValueError
PP_ClosureForce ==
    /\ pp_pc = "closure_force"
    /\ IF Len(unloading_disps.a) = 0 \/ Len(unloading_forces.a) = 0
       THEN Goto("loading_stiffness") /\ UNCHANGED <<closure_force, sigma_cl>>
       ELSE IF x_intersect = None
       THEN Raise("TypeError") /\ UNCHANGED <<closure_force, sigma_cl>>
       ELSE /\ closure_force' = Flt(ForceAt(unloading_forces.a, unloading_disps.a, x_intersect.f))
            /\ IF LookupBranch(unloading_disps.a, x_intersect.f) = "above"
                  THEN Raise("ValueError") /\ UNCHANGED sigma_cl
                  ELSE /\ sigma_cl' = Flt(RatioOf(ForceAt(unloading_forces.a, unloading_disps.a, x_intersect.f), unloading_forces.a))
                       /\ Goto("loading_stiffness")
    /\ UNCHANGED <<ppInputs, ppClean, peaks, ppSlice, ppLoad, ppUnload,
                   ppStiff, ppFit1, ppFit2, ppCross, ppFit1l, ppFit2l,
                   ppCrossl, ppOpening, coVars, cmpVars,
                   clVars, jobVars>>

\* lines 408-410: the stiffness dF/dU along the arm; np.gradient raises
\* ValueError on fewer than 2 samples
PP_LoadingStiffness ==
    /\ pp_pc = "loading_stiffness"
    /\ IF Len(loading_forces.a) < 2 \/ Len(loading_disps.a) < 2
       THEN Raise("ValueError") /\ UNCHANGED slopes
       ELSE /\ slopes' = Arr(Stiffness(loading_forces.a, loading_disps.a))
            /\ Goto("loading_regime1")
    /\ UNCHANGED <<slopes_clean, unloading_disps_clean, loading_disps_clean>>
    /\ UNCHANGED <<ppInputs, ppClean, peaks, ppSlice, ppLoad, ppUnload,
                   ppFit1, ppFit2, ppCross, ppFit1l, ppFit2l, ppCrossl,
                   ppClosure, ppOpening, coVars, cmpVars,
                   clVars, jobVars>>

\* lines 412-456: the first regime and its regression line
PP_LoadingRegime1 ==
    /\ pp_pc = "loading_regime1"
    /\ slopes_clean' = Arr(SlopesClean(loading_disps.a, slopes.a, cal.l).s)
    /\ loading_disps_clean' = Arr(SlopesClean(loading_disps.a, slopes.a, cal.l).d)
    /\ \E r \in {Regime1(loading_disps.a, slopes.a, cal.l)} :
       \E fit \in {LinearRegression(r.d, r.s)} :
          /\ xreg1l' = Arr(r.d)
          /\ yreg1l' = Arr(r.s)
          /\ IF fit.st = "ok"
             THEN /\ slope1l' = Flt(fit.c0)
                  /\ intercept1l' = Flt(fit.c1)
                  /\ Goto("loading_regime2")
             ELSE /\ Raise(fit.st)
                  /\ UNCHANGED <<slope1l, intercept1l>>
    /\ UNCHANGED <<slopes, unloading_disps_clean>>
    /\ UNCHANGED <<ppInputs, ppClean, peaks, ppSlice, ppLoad, ppUnload,
                   ppFit1, ppFit2, ppCross, ppFit2l, ppCrossl, ppClosure,
                   ppOpening, coVars, cmpVars,
                   clVars, jobVars>>

\* lines 467-511: the second regime, taken from slopes_clean, and its line
PP_LoadingRegime2 ==
    /\ pp_pc = "loading_regime2"
    /\ \E r \in {Regime2([d |-> loading_disps_clean.a, s |-> slopes_clean.a], cal.l)} :
       \E fit \in {LinearRegression(r.d, r.s)} :
          /\ xreg2l' = Arr(r.d)
          /\ yreg2l' = Arr(r.s)
          /\ IF fit.st = "ok"
             THEN /\ slope2l' = Flt(fit.c0)
                  /\ intercept2l' = Flt(fit.c1)
                  /\ Goto("loading_intersection")
             ELSE /\ Raise(fit.st)
                  /\ UNCHANGED <<slope2l, intercept2l>>
    /\ UNCHANGED <<ppInputs, ppClean, peaks, ppSlice, ppLoad, ppUnload,
                   ppStiff, ppFit1, ppFit2, ppCross, ppFit1l, ppCrossl,
                   ppClosure, ppOpening, coVars, cmpVars,
                   clVars, jobVars>>

\* lines 526-531: the intersection of the two regression lines, None when
\* their slopes are equal
PP_LoadingIntersection ==
    /\ pp_pc = "loading_intersection"
    /\ x_intersectl' = IntersectX(slope1l.f, intercept1l.f, slope2l.f, intercept2l.f)
    /\ y_intersectl' = IntersectY(slope1l.f, intercept1l.f,
                                IntersectX(slope1l.f, intercept1l.f, slope2l.f, intercept2l.f))
    /\ Goto("opening_force")
    /\ UNCHANGED <<ppInputs, ppClean, peaks, ppSlice, ppLoad, ppUnload,
                   ppStiff, ppFit1, ppFit2, ppCross, ppFit1l, ppFit2l,
                   ppClosure, ppOpening, coVars, cmpVars,
                   clVars, jobVars>>

\* lines 565-601: the opening force and its ratio.  A target of None fails the
\* range comparison with TypeError
PP_OpeningForce ==
    /\ pp_pc = "opening_force"
    /\ IF Len(loading_disps.a) = 0 \/ Len(loading_forces.a) = 0
       THEN Goto("done") /\ UNCHANGED <<opening_force, sigma_op>>
       ELSE IF x_intersectl = None
       THEN Raise("TypeError") /\ UNCHANGED <<opening_force, sigma_op>>
       ELSE /\ opening_force' = Flt(ForceAt(loading_forces.a, loading_disps.a, x_intersectl.f))
            /\ sigma_op' = Flt(RatioOf(ForceAt(loading_forces.a, loading_disps.a, x_intersectl.f), loading_forces.a))
               /\ Goto("done")
    /\ UNCHANGED <<ppInputs, ppClean, peaks, ppSlice, ppLoad, ppUnload,
                   ppStiff, ppFit1, ppFit2, ppCross, ppFit1l, ppFit2l,
                   ppCrossl, ppClosure, coVars, cmpVars,
                   clVars, jobVars>>

PPNext ==
    \/ PP_Clean
    \/ PP_FindPeaks
    \/ PP_CycleSlice
    \/ PP_LoadingArm
    \/ PP_UnloadingArm
    \/ PP_UnloadingStiffness
    \/ PP_UnloadingRegime1
    \/ PP_UnloadingRegime2
    \/ PP_UnloadingIntersection
    \/ PP_ClosureForce
    \/ PP_LoadingStiffness
    \/ PP_LoadingRegime1
    \/ PP_LoadingRegime2
    \/ PP_LoadingIntersection
    \/ PP_OpeningForce

SpecPP == PPInit /\ [][PPNext]_vars

(***************************************************************************)
(* The comparison loop (src/compliance_comparaison.py)                     *)
(***************************************************************************)
\* largest number of files in the list
MaxFiles == 3

\* line 235: params = [0.1, 0.05, 0.01, 1, 0.25]
CmpParams == <<Lit(1, 10), Lit(5, 100), Lit(1, 100), I(1), Lit(25, 100)>>

\* line 236: opt = 2
CmpOpt == 2

\* lines 207-230: the cleaned arms of a sheet
CleanedArms(sh) ==
    [Xl  |-> Take(sh.fl, NotNaNMask(sh.fl, Doubled(sh.dl))),
     Yl  |-> Take(Doubled(sh.dl), NotNaNMask(sh.fl, Doubled(sh.dl))),
     Xul |-> Take(sh.ful, NotNaNMask(sh.ful, Doubled(sh.dul))),
     Yul |-> Take(Doubled(sh.dul), NotNaNMask(sh.ful, Doubled(sh.dul)))]

\* X_mid of an arm
ArmMid(Xa_min, Xmax, p) ==
    XMid(Xa_min, FlSub(Xmax, Xa_min), p[1], p[2], NSegments(p[1], p[2]))

\* X_mid_fine of an arm
ArmFine(Xa_min, Xmax, p) ==
    XMidFine(ArmMid(Xa_min, Xmax, p), FlSub(Xmax, Xa_min), p[3])

\* the fits of the coarse segments of an arm
CoarseFits(Xa, Ya, Xa_min, Xmax, p) ==
    SegFits(Xa, Ya, ArmMid(Xa_min, Xmax, p), NSegments(p[1], p[2]),
            FlMul(FlSub(Xmax, Xa_min), p[1]))

\* the fits of the fine segments of an arm
FineFits(Xa, Ya, Xa_min, Xmax, p) ==
    SegFits(Xa, Ya, ArmFine(Xa_min, Xmax, p), Len(ArmFine(Xa_min, Xmax, p)),
            FlMul(FlSub(Xmax, Xa_min), p[1]))

\* the fit of the extrapolation, with or without rounding noise
ExtrapFit(off2, fine, noise) ==
    IF noise /\ Perturbed(off2) # {} THEN FitSteep(off2) ELSE Polyfit(off2, fine)

\* the fits compliance_offset makes on one arm, in the order it makes them:
\* the coarse segments, the fine segments, the extrapolation
ArmFits(Xa, Ya, Xa_min, Xmax, p, c0, noise) ==
    CoarseFits(Xa, Ya, Xa_min, Xmax, p) \o FineFits(Xa, Ya, Xa_min, Xmax, p)
        \o <<ExtrapFit(OffsetOf(c0, Slopes(FineFits(Xa, Ya, Xa_min, Xmax, p))),
                       ArmFine(Xa_min, Xmax, p), noise)>>

\* the fit of the reference window
RefFit(A, p) ==
    Polyfit(Take(A.Xul, RefWindow(A.Xul, FMinSeq(A.Xul), FMaxSeq(A.Xl), p[4], p[5])),
            Take(A.Yul, RefWindow(A.Xul, FMinSeq(A.Xul), FMaxSeq(A.Xl), p[4], p[5])))

\* every fit of one call of compliance_offset, in order
CallFits(A, p, o, noise) ==
    <<RefFit(A, p)>>
        \o ArmFits(SliceFrom(A.Xl, TrimStart(A.Xl, FMinSeq(A.Xl))),
                   SliceFrom(A.Yl, TrimStart(A.Xl, FMinSeq(A.Xl))),
                   FMinSeq(A.Xl), FMaxSeq(A.Xl), p, RefFit(A, p).c0, noise)
        \o (IF o = 2
            THEN ArmFits(A.Xul, A.Yul, FMinSeq(A.Xul), FMaxSeq(A.Xl), p,
                         RefFit(A, p).c0, noise)
            ELSE <<>>)

\* the exception a call of compliance_offset raises on build b, or "ok"
CallFailure(sh, p, o, b, noise) == FirstFailure(CallFits(CleanedArms(sh), p, o, noise), b)

\* what the call of compliance_offset may do on a sheet: over the builds,
\* and with or without rounding noise in the extrapolation
CallOutcomes(sh) ==
    {CallFailure(sh, CmpParams, CmpOpt, b, noise) :
        b \in LinOutcomes, noise \in BOOLEAN}

\* a path that does not exist, a file pd.read_excel cannot read, or a sheet
\* together with what the call does on it
FileMissing == [kind |-> "missing", sheet |-> Sheet(<<>>, <<>>, <<>>, <<>>), call |-> {}]

FileUnreadable ==
    [kind |-> "unreadable", sheet |-> Sheet(<<>>, <<>>, <<>>, <<>>), call |-> {}]

FileOf(sh) == [kind |-> "sheet", sheet |-> sh, call |-> CallOutcomes(sh)]

\* a closure curve sampled at every force, and a line sampled every Stride
CmpFiles ==
    {FileMissing, FileUnreadable, FileOf(ClosureSheet(Ramp(NPts), 1)),
     FileOf(LinearSheet(Sparse(NPts), 1, 0))}

\* the lists of 1..MaxFiles files
CmpLists == UNION {[1..n -> CmpFiles] : n \in 1..MaxFiles}

CmpInit ==
    /\ files \in CmpLists
    /\ file_i = 0
    /\ results_loading = {}
    /\ results_unloading = {}
    /\ cmp_pc = "loop"
    /\ cmp_err = "none"
    /\ COIdle
    /\ PPIdle
    /\ CLIdle
    /\ JobIdle

\* lines 195-198: a path that does not exist is skipped
Cmp_FileMissing ==
    /\ cmp_pc = "loop"
    /\ file_i < Len(files)
    /\ files[file_i + 1].kind = "missing"
    /\ file_i' = file_i + 1
    /\ UNCHANGED <<files, results_loading, results_unloading, cmp_pc, cmp_err,
                   coVars, ppVars, clVars, jobVars>>

\* lines 200-205: an exception of pd.read_excel is caught and the file skipped
Cmp_ReadError ==
    /\ cmp_pc = "loop"
    /\ file_i < Len(files)
    /\ files[file_i + 1].kind = "unreadable"
    /\ file_i' = file_i + 1
    /\ UNCHANGED <<files, results_loading, results_unloading, cmp_pc, cmp_err,
                   coVars, ppVars, clVars, jobVars>>

\* lines 207-254: the file is cleaned, compliance_offset is called outside
\* any try block, and its curves are stored under the key of the file (here
\* its position in the list)
Cmp_Process ==
    /\ cmp_pc = "loop"
    /\ file_i < Len(files)
    /\ files[file_i + 1].kind = "sheet"
    /\ \E failure \in files[file_i + 1].call :
          IF failure = "ok"
          THEN /\ results_loading' = results_loading \cup {file_i + 1}
               /\ results_unloading' = results_unloading \cup {file_i + 1}
               /\ file_i' = file_i + 1
               /\ UNCHANGED <<cmp_pc, cmp_err>>
          ELSE /\ cmp_pc' = "raised"
               /\ cmp_err' = failure
               /\ UNCHANGED <<file_i, results_loading, results_unloading>>
    /\ UNCHANGED <<files, coVars, ppVars, clVars, jobVars>>

\* lines 256-287: the stored curves are plotted and listed
Cmp_Plot ==
    /\ cmp_pc = "loop"
    /\ file_i = Len(files)
    /\ cmp_pc' = "done"
    /\ UNCHANGED <<files, file_i, results_loading, results_unloading, cmp_err,
                   coVars, ppVars, clVars, jobVars>>

CmpNext ==
    \/ Cmp_FileMissing
    \/ Cmp_ReadError
    \/ Cmp_Process
    \/ Cmp_Plot

SpecCmp == CmpInit /\ [][CmpNext]_vars

(***************************************************************************)
(* The step builder (src/picc_common/cyclic_loading.py), one StaticStep    *)
(* call per action, driven by PICCModelBuilder.create_cyclic_loading       *)
(***************************************************************************)
\* len(get_standard_charge_levels())
StdCharge == 5

\* len(get_standard_decharge_levels())
StdDecharge == 19

\* the plateau count written into the name of the first descent's previous
AssumedPlateau == 3

\* how far the lengths passed by the caller lie from the standard ones
LenSlack == 1

\* the largest num_cycles
MaxNumCycles == 2

\* 'Initial', the step every Abaqus model starts with
InitialStep == [cycle |-> 0, phase |-> "Initial", n |-> 0]

\* f'Cycle-{c}-{phase}-{n}'
StepName(c, phase, n) == [cycle |-> c, phase |-> phase, n |-> n]

\* loading_params of create_cyclic_loading with the lengths of its lists
LoadingParams ==
    { [num_cycles |-> nc, charge |-> c, decharge |-> d, plateau |-> p] :
        nc \in 1..MaxNumCycles,
        c \in (StdCharge - LenSlack)..(StdCharge + LenSlack),
        d \in (StdDecharge - LenSlack)..(StdDecharge + LenSlack),
        p \in (AssumedPlateau - LenSlack)..(AssumedPlateau + LenSlack) }

\* the names of model.steps
StepNames(steps) == {InitialStep} \cup {steps[i].name : i \in 1..Len(steps)}

\* previous step of the mount step of a substep
MountPrevious(cyc, substep) ==
    IF cyc = 0 /\ substep = 0 THEN InitialStep
    ELSE IF substep = 0 THEN StepName(cyc, "Descent", StdDecharge)
    ELSE StepName(cyc + 1, "Mount", substep)

\* previous step of the plateau step of a substep
PlateauPrevious(cyc, substep) ==
    IF substep = 0 THEN StepName(cyc + 1, "Mount", StdCharge)
    ELSE StepName(cyc + 1, "Plateau", substep)

\* previous step of the descent step of a substep
DescentPrevious(cyc, substep) ==
    IF substep = 0 THEN StepName(cyc + 1, "Plateau", AssumedPlateau)
    ELSE StepName(cyc + 1, "Descent", substep)

\* model.StaticStep(name, previous) followed by the load of the step: the
\* call raises when no step of the model has the name given as previous
StaticStep(name, previous) ==
    IF previous \in StepNames(cl_steps)
    THEN /\ cl_steps' = Append(cl_steps, [name |-> name, previous |-> previous])
         /\ cl_load' = cl_load \cup {name}
         /\ cl_sub' = cl_sub + 1
         /\ UNCHANGED <<cl_pc, cl_err>>
    ELSE /\ cl_pc' = "raised"
         /\ cl_err' = <<[name |-> name, previous |-> previous]>>
         /\ UNCHANGED <<cl_steps, cl_load, cl_sub>>

CLInit ==
    /\ cl_params \in LoadingParams
    /\ cl_pc = "mount"
    /\ cl_cycle = 0
    /\ cl_sub = 0
    /\ cl_steps = <<>>
    /\ cl_load = {}
    /\ cl_err = <<>>
    /\ COIdle
    /\ PPIdle
    /\ CmpIdle
    /\ JobIdle

\* create_loading_steps, one pass of its loop
CL_Mount ==
    /\ cl_pc = "mount"
    /\ cl_sub < cl_params.charge
    /\ StaticStep(StepName(cl_cycle + 1, "Mount", cl_sub + 1),
                  MountPrevious(cl_cycle, cl_sub))
    /\ UNCHANGED <<cl_params, cl_cycle, coVars, ppVars, cmpVars, jobVars>>

\* create_loading_steps returns and create_plateau_steps is entered
CL_MountReturn ==
    /\ cl_pc = "mount"
    /\ cl_sub = cl_params.charge
    /\ cl_pc' = "plateau"
    /\ cl_sub' = 0
    /\ UNCHANGED <<cl_params, cl_cycle, cl_steps, cl_load, cl_err,
                   coVars, ppVars, cmpVars, jobVars>>

\* create_plateau_steps, one pass of its loop
CL_Plateau ==
    /\ cl_pc = "plateau"
    /\ cl_sub < cl_params.plateau
    /\ StaticStep(StepName(cl_cycle + 1, "Plateau", cl_sub + 1),
                  PlateauPrevious(cl_cycle, cl_sub))
    /\ UNCHANGED <<cl_params, cl_cycle, coVars, ppVars, cmpVars, jobVars>>

\* create_plateau_steps returns and create_unloading_steps is entered
CL_PlateauReturn ==
    /\ cl_pc = "plateau"
    /\ cl_sub = cl_params.plateau
    /\ cl_pc' = "descent"
    /\ cl_sub' = 0
    /\ UNCHANGED <<cl_params, cl_cycle, cl_steps, cl_load, cl_err,
                   coVars, ppVars, cmpVars, jobVars>>

\* create_unloading_steps, one pass of its loop
CL_Descent ==
    /\ cl_pc = "descent"
    /\ cl_sub < cl_params.decharge
    /\ StaticStep(StepName(cl_cycle + 1, "Descent", cl_sub + 1),
                  DescentPrevious(cl_cycle, cl_sub))
    /\ UNCHANGED <<cl_params, cl_cycle, coVars, ppVars, cmpVars, jobVars>>

\* create_complete_cycle returns: the next cycle of create_cyclic_loading,
\* or its end
CL_CycleReturn ==
    /\ cl_pc = "descent"
    /\ cl_sub = cl_params.decharge
    /\ cl_cycle' = cl_cycle + 1
    /\ cl_sub' = 0
    /\ cl_pc' = IF cl_cycle + 1 < cl_params.num_cycles THEN "mount" ELSE "done"
    /\ UNCHANGED <<cl_params, cl_steps, cl_load, cl_err,
                   coVars, ppVars, cmpVars, jobVars>>

CLNext ==
    \/ CL_Mount
    \/ CL_MountReturn
    \/ CL_Plateau
    \/ CL_PlateauReturn
    \/ CL_Descent
    \/ CL_CycleReturn

SpecCL == CLInit /\ [][CLNext]_vars

(***************************************************************************)
(* The job driver (src/automate.py) and the solvers that `abaqus job=`     *)
(* leaves running in the background                                        *)
(***************************************************************************)
\* the largest number of (stress_ratio, r_ratio) pairs
MaxJobs == 3

\* the largest number of 'Wait for the end' lines recorded for one job
MaxWaits == 2

\* what os.system returns: zero, or something else
ExitCodes == {0, 1}

\* print(...) of the driver: the kind of line and the job it names
OutLine(msg, job) == [msg |-> msg, job |-> job]

\* the lines of a kind printed for a job
Printed(msg, job) == {i \in 1..Len(jb_out) : jb_out[i] = OutLine(msg, job)}

JobInit ==
    /\ jb_total \in 1..MaxJobs
    /\ jb_counter = 0
    /\ jb_pc = "next"
    /\ jb_solver = [j \in 1..jb_total |-> "none"]
    /\ jb_lck = {}
    /\ jb_out = <<>>
    /\ COIdle
    /\ PPIdle
    /\ CmpIdle
    /\ CLIdle

\* lines 98-115: the next pair is taken and its model script is written
Job_Generate ==
    /\ jb_pc = "next"
    /\ jb_counter < jb_total
    /\ jb_counter' = jb_counter + 1
    /\ jb_out' = Append(jb_out, OutLine("generated", jb_counter + 1))
    /\ jb_pc' = "cae"
    /\ UNCHANGED <<jb_total, jb_solver, jb_lck,
                   coVars, ppVars, cmpVars, clVars>>

\* lines 117-121: abaqus cae noGUI=<script>; a non-zero exit code skips the
\* job
Job_CreateModel ==
    /\ jb_pc = "cae"
    /\ \E exit_code \in ExitCodes :
          IF exit_code # 0
          THEN /\ jb_out' = Append(jb_out, OutLine("error_inp", jb_counter))
               /\ jb_pc' = "next"
          ELSE /\ jb_pc' = "job"
               /\ UNCHANGED jb_out
    /\ UNCHANGED <<jb_total, jb_counter, jb_solver, jb_lck,
                   coVars, ppVars, cmpVars, clVars>>

\* lines 123-126: abaqus job=<job> returns once the analysis is handed to
\* the background; a non-zero exit code skips the job
Job_Submit ==
    /\ jb_pc = "job"
    /\ \E exit_code_job \in ExitCodes :
          IF exit_code_job # 0
          THEN /\ jb_out' = Append(jb_out, OutLine("error_exec", jb_counter))
               /\ jb_pc' = "next"
               /\ UNCHANGED jb_solver
          ELSE /\ jb_solver' = [jb_solver EXCEPT ![jb_counter] = "submitted"]
               /\ jb_pc' = "poll"
               /\ UNCHANGED jb_out
    /\ UNCHANGED <<jb_total, jb_counter, jb_lck,
                   coVars, ppVars, cmpVars, clVars>>

\* lines 129-132: after a sleep the lock file is looked up; while it exists
\* a line is printed and the driver sleeps again
Job_Wait ==
    /\ jb_pc = "poll"
    /\ jb_counter \in jb_lck
    /\ Cardinality(Printed("wait", jb_counter)) < MaxWaits
    /\ jb_out' = Append(jb_out, OutLine("wait", jb_counter))
    /\ UNCHANGED <<jb_total, jb_counter, jb_pc, jb_solver, jb_lck,
                   coVars, ppVars, cmpVars, clVars>>

\* lines 130, 134: the lock file does not exist: the job is reported finished
Job_Finished ==
    /\ jb_pc = "poll"
    /\ jb_counter \notin jb_lck
    /\ jb_out' = Append(jb_out, OutLine("finished", jb_counter))
    /\ jb_pc' = "next"
    /\ UNCHANGED <<jb_total, jb_counter, jb_solver, jb_lck,
                   coVars, ppVars, cmpVars, clVars>>

\* line 136: both loops are exhausted
Job_AllFinished ==
    /\ jb_pc = "next"
    /\ jb_counter = jb_total
    /\ jb_out' = Append(jb_out, OutLine("all", 0))
    /\ jb_pc' = "done"
    /\ UNCHANGED <<jb_total, jb_counter, jb_solver, jb_lck,
                   coVars, ppVars, cmpVars, clVars>>

\* the solver of a submitted job starts and creates <job>.lck
Solver_Lock ==
    \E j \in 1..jb_total :
        /\ jb_solver[j] = "submitted"
        /\ jb_solver' = [jb_solver EXCEPT ![j] = "running"]
        /\ jb_lck' = jb_lck \cup {j}
        /\ UNCHANGED <<jb_total, jb_counter, jb_pc, jb_out,
                       coVars, ppVars, cmpVars, clVars>>

\* the solver of a job completes and removes <job>.lck
Solver_Unlock ==
    \E j \in 1..jb_total :
        /\ jb_solver[j] = "running"
        /\ jb_solver' = [jb_solver EXCEPT ![j] = "completed"]
        /\ jb_lck' = jb_lck \ {j}
        /\ UNCHANGED <<jb_total, jb_counter, jb_pc, jb_out,
                       coVars, ppVars, cmpVars, clVars>>

JobNext ==
    \/ Job_Generate
    \/ Job_CreateModel
    \/ Job_Submit
    \/ Job_Wait
    \/ Job_Finished
    \/ Job_AllFinished
    \/ Solver_Lock
    \/ Solver_Unlock

SpecJob == JobInit /\ [][JobNext]_vars

(***************************************************************************)
(* Properties of compliance_offset, checked under SpecCO                   *)
(***************************************************************************)
\* C1: for each computed arm the returned offsets are Coffset_Xmin, then
\* Coffset2, then Coffset1[2:], the returned positions are X_min, then
\* X_mid_fine, then X_mid[2:], and both arrays have length
\* 1 + len(X_mid_fine) + max(0, N_segments - 2).  Violated: np.arange lays out
\* the interior centers in rounded arithmetic and, for span 0.3 and shift 0.1,
\* yields one center more than N_segments - 2, so the positions are one longer
\* than the offsets.
C1_AssembledCurve ==
    (co_pc = "grid" /\ arm_i >= 2) =>
        LET Cof  == IF arm_i = 2 THEN Coffset_l.a ELSE Coffset_ul.a
            Xs   == IF arm_i = 2 THEN Xseg_l.a ELSE Xseg_ul.a
            tail == IF N_segments > 2 THEN N_segments - 2 ELSE 0
        IN  /\ Cof = <<Coffset_Xmin>> \o Coffset2 \o SubSeq(Coffset1, 3, Len(Coffset1))
            /\ Xs = <<X_min>> \o X_mid_fine \o SubSeq(X_mid, 3, Len(X_mid))
            /\ Len(Cof) = 1 + Len(X_mid_fine) + tail
            /\ Len(Xs) = 1 + Len(X_mid_fine) + tail

\* C2: when both cleaned arms lie on one line displacement = C*force + b, a
\* call that returns has C0 = C and every returned offset, the extrapolated
\* first one included, equal to 0.  Violated: a window that holds a single
\* sample is fitted with half the secant slope, and a constant run of fine
\* offsets leaves the extrapolation to LAPACK's treatment of NaN.
C2_LinearRoundTrip ==
    \A C \in 1..MaxC, b \in 0..MaxB :
        (/\ co_pc = "returned"
         /\ \A p \in 1..Len(Xl) : Yl[p] = FAdd(FMul(I(C), Xl[p]), I(b))
         /\ \A p \in 1..Len(Xul) : Yul[p] = FAdd(FMul(I(C), Xul[p]), I(b)))
        => /\ C0 = I(C)
           /\ \A p \in 1..Len(Coffset_l.a) : Coffset_l.a[p] = I(0)
           /\ opt = 2 => \A p \in 1..Len(Coffset_ul.a) : Coffset_ul.a[p] = I(0)

\* C3: a reference, coarse or fine window with fewer than 2 samples makes the
\* call fail, so a step that went on had 2 or more samples in each of its
\* windows.  Violated: np.polyfit fits a single sample with a RankWarning only
\* and the call goes on with that slope.
C3_NoDegenerateFit ==
    /\ (co_pc = "grid" /\ arm_i = 1) =>
           Len(RefWindow(Xul, Xul_min, X_max, HL, F)) >= 2
    /\ co_pc = "fine" =>
           \A j \in 1..N_segments : Len(SegWindow(X, X_mid[j], Width)) >= 2
    /\ co_pc = "extrapolate" =>
           \A q \in 1..Len(X_mid_fine) :
               Len(SegWindow(X, X_mid_fine[q], Width)) >= 2

(***************************************************************************)
(* Properties of the post-processing script, checked under SpecPP          *)
(***************************************************************************)
\* C4: for either arm, when the intersection displacement lies below the
\* smallest displacement of the arm, the reported force is the force of the
\* arm's first sample.
C4_BelowRangeFirstSample ==
    /\ (closure_force # None /\ FLt(x_intersect.f, FMinSeq(unloading_disps.a)))
           => closure_force = Flt(unloading_forces.a[1])
    /\ (opening_force # None /\ FLt(x_intersectl.f, FMinSeq(loading_disps.a)))
           => opening_force = Flt(loading_forces.a[1])

\* C4 witness: a run that reported both forces from below the range
C4_Witness ==
    /\ closure_force # None
    /\ FLt(x_intersect.f, FMinSeq(unloading_disps.a))
    /\ opening_force # None
    /\ FLt(x_intersectl.f, FMinSeq(loading_disps.a))

\* C5: when the intersection displacement lies outside the displacement range
\* of an arm, the reported force is that of the sample whose displacement is
\* nearest to it, and a ratio is reported without error, on the unloading arm
\* as on the loading arm.  Violated on the unloading arm: its displacement
\* decreases with the index, so below the range the first sample is the
\* farthest one, and above the range line 399 raises ValueError.
C5_NearestBoundarySample ==
    /\ (closure_force # None
            /\ LookupBranch(unloading_disps.a, x_intersect.f) # "inside")
           => /\ closure_force =
                     Flt(unloading_forces.a[ClosestIdx(unloading_disps.a, x_intersect.f) + 1])
              /\ sigma_cl # None
              /\ pp_pc # "raised" \/ pp_err # "ValueError"
    /\ (opening_force # None
            /\ LookupBranch(loading_disps.a, x_intersectl.f) # "inside")
           => /\ opening_force =
                     Flt(loading_forces.a[ClosestIdx(loading_disps.a, x_intersectl.f) + 1])
              /\ sigma_op # None

\* C6: when the two regression lines of an arm have the same slope, the
\* intersection is None (undefined) and the run ends there, at the range
\* comparison with None (TypeError): no transition displacement, transition
\* load or load ratio is produced for that arm.
C6_ParallelRegimes ==
    /\ (slope2 # None /\ slope1 = slope2 /\ pp_pc # "unloading_intersection")
           => /\ x_intersect = None
              /\ y_intersect = None
              /\ closure_force = None
              /\ sigma_cl = None
              /\ pp_pc \in {"closure_force", "raised"}
              /\ pp_pc = "raised" => pp_err = "TypeError"
    /\ (slope2l # None /\ slope1l = slope2l /\ pp_pc # "loading_intersection")
           => /\ x_intersectl = None
              /\ y_intersectl = None
              /\ opening_force = None
              /\ sigma_op = None
              /\ pp_pc \in {"opening_force", "raised"}
              /\ pp_pc = "raised" => pp_err = "TypeError"

\* C6 witness: a run ended by two unloading regimes of equal slope
C6_Witness ==
    /\ slope2 # None
    /\ slope1 = slope2
    /\ pp_pc = "raised"
    /\ pp_err = "TypeError"

\* C7: when the slopes differ, the transition point is
\* x* = (b2 - b1)/(m1 - m2), y* = m1 x* + b1, and it lies on the second line
\* too; the regimes y = 2x + 1 and y = -x + 20 give x* = 19/3.
C7_Intersection ==
    /\ (slope2 # None /\ slope1 # slope2 /\ pp_pc # "unloading_intersection")
           => /\ x_intersect =
                     Flt(FDiv(FSub(intercept2.f, intercept1.f), FSub(slope1.f, slope2.f)))
              /\ y_intersect = Flt(FAdd(FMul(slope1.f, x_intersect.f), intercept1.f))
              /\ y_intersect = Flt(FAdd(FMul(slope2.f, x_intersect.f), intercept2.f))
    /\ (slope2l # None /\ slope1l # slope2l /\ pp_pc # "loading_intersection")
           => /\ x_intersectl =
                     Flt(FDiv(FSub(intercept2l.f, intercept1l.f), FSub(slope1l.f, slope2l.f)))
              /\ y_intersectl = Flt(FAdd(FMul(slope1l.f, x_intersectl.f), intercept1l.f))
              /\ y_intersectl = Flt(FAdd(FMul(slope2l.f, x_intersectl.f), intercept2l.f))
    /\ (/\ slope1l = Flt(I(2))
        /\ intercept1l = Flt(I(1))
        /\ slope2l = Flt(I(-1))
        /\ intercept2l = Flt(I(20))
        /\ pp_pc # "loading_intersection")
           => x_intersectl = Flt(Num(19, 3))

\* C7 witness: the loading regimes y = 2x + 1 and y = -x + 20, fitted over
\* the samples below and above displacement 5, met at 19/3
C7_Witness ==
    /\ slope1l = Flt(I(2))
    /\ intercept1l = Flt(I(1))
    /\ slope2l = Flt(I(-1))
    /\ intercept2l = Flt(I(20))
    /\ xreg1l.a # xreg2l.a
    /\ x_intersectl = Flt(Num(19, 3))
    /\ y_intersectl = Flt(Num(41, 3))

\* C8 as stated: for the series 0, 10, ..., 100, 90, ..., 0 repeated 3 times
\* with force_min = 5, the peaks are the three samples of value 100 and the
\* loading arm of cycle 2 is the ascending run of the second repetition (read
\* with or without its peak sample).
C8_AscendingRun ==
    (/\ forces = Joined(Triangle, Twice(Triangle)).forces
     /\ force_min = I(5)
     /\ cycle = 2
     /\ loading_forces # None)
        => /\ peaks = <<10, 31, 52>>
           /\ loading_forces.a \in
                  {Ints(<<0, 10, 20, 30, 40, 50, 60, 70, 80, 90, 100>>),
                   Ints(<<0, 10, 20, 30, 40, 50, 60, 70, 80, 90>>)}

\* C8: for that series with force_min = 5, the peaks are exactly the three
\* samples of value 100 (indices 10, 31, 52) and the loading arm of cycle 2 is
\* forces[20:31] = 0, 0, 10, ..., 90: it starts at the last sample of the
\* first repetition, the first one at or below force_min after the previous
\* peak, and stops before the peak sample.
C8_Segmentation ==
    forces = Joined(Triangle, Twice(Triangle)).forces =>
        /\ pp_pc \notin {"read", "peaks"} =>
               /\ peaks = <<10, 31, 52>>
               /\ \A q \in 1..Len(forces_clean) :
                      forces_clean[q] = I(100) <=> \E r \in 1..Len(peaks) : peaks[r] = q - 1
        /\ (force_min = I(5) /\ cycle = 2 /\ loading_forces # None) =>
               /\ load_start = Idx(20)
               /\ load_end = Idx(31)
               /\ loading_forces.a = Ints(<<0, 0, 10, 20, 30, 40, 50, 60, 70, 80, 90>>)

\* C8 witness: the loading arm of cycle 2 of the triangular series
C8_Witness ==
    /\ forces = Joined(Triangle, Twice(Triangle)).forces
    /\ force_min = I(5)
    /\ cycle = 2
    /\ Len(peaks) = 3
    /\ loading_forces # None

\* C9 as stated: with a cycle number above the number of peaks, no start or
\* end index, cycle slice, loading arm or unloading arm is produced.
C9_NothingAssigned ==
    (cycle > Len(peaks) /\ pp_pc \notin {"read", "peaks", "slice"}) =>
        /\ pp_pc = "raised"
        /\ start = None
        /\ end = None
        /\ forces_cycle = None
        /\ disps_cycle = None
        /\ loading_forces = None
        /\ unloading_forces = None

\* C9: with a cycle number above the number of peaks, the run ends at the
\* slice with IndexError on peaks[cycle - 1]: no end index, cycle slice,
\* loading arm or unloading arm is produced; `start` alone may have been
\* assigned before the failure (0 for cycle 1, the previous peak when
\* cycle = len(peaks) + 1).
C9_CycleOutOfRange ==
    (cycle > Len(peaks) /\ pp_pc \notin {"read", "peaks", "slice"}) =>
        /\ pp_pc = "raised"
        /\ pp_err = "IndexError"
        /\ start = IF cycle = 1 THEN Idx(0)
                   ELSE IF cycle = Len(peaks) + 1 THEN Idx(peaks[cycle - 1])
                   ELSE None
        /\ end = None
        /\ forces_cycle = None
        /\ disps_cycle = None
        /\ load_start = None
        /\ load_end = None
        /\ loading_forces = None
        /\ loading_disps = None
        /\ release_start = None
        /\ release_end = None
        /\ unloading_forces = None
        /\ unloading_disps = None

\* C9 witness: a run asked for the cycle after the last detected peak
C9_Witness ==
    /\ Len(peaks) > 0
    /\ cycle = Len(peaks) + 1
    /\ pp_pc = "raised"
    /\ pp_err = "IndexError"

\* C10 as stated: each reported ratio is the looked-up force divided by the
\* force at the detected peak index peaks[cycle - 1], for the loading as for
\* the unloading arm, and is at most 1.
C10_PeakDenominator ==
    /\ sigma_cl # None =>
           /\ sigma_cl = Flt(FDiv(closure_force.f, forces_clean[peaks[cycle] + 1]))
           /\ FLe(sigma_cl.f, I(1))
    /\ sigma_op # None =>
           /\ sigma_op = Flt(FDiv(opening_force.f, forces_clean[peaks[cycle] + 1]))
           /\ FLe(sigma_op.f, I(1))

\* C10: each reported ratio is the looked-up force divided by the largest
\* force of its own arm, and is at most 1.  The unloading arm starts at the
\* peak sample peaks[cycle - 1]; the loading arm [load_start, peaks[cycle - 1])
\* stops before it, so its denominator is the largest force before the peak.
C10_ArmMaximum ==
    /\ sigma_cl # None =>
           /\ sigma_cl = Flt(FDiv(closure_force.f, FMaxSeq(unloading_forces.a)))
           /\ unloading_forces.a[1] = forces_clean[peaks[cycle] + 1]
           /\ FLe(sigma_cl.f, I(1))
    /\ sigma_op # None =>
           /\ sigma_op = Flt(FDiv(opening_force.f, FMaxSeq(loading_forces.a)))
           /\ Len(loading_forces.a) = peaks[cycle] - load_start.f.n
           /\ \A q \in 1..Len(loading_forces.a) :
                  loading_forces.a[q] = forces_clean[load_start.f.n + q]
           /\ FLe(sigma_op.f, I(1))

\* C10 witness: both ratios reported, the loading one over a denominator
\* that is not the force at the peak
C10_Witness ==
    /\ sigma_cl # None
    /\ sigma_op # None
    /\ FMaxSeq(loading_forces.a) # forces_clean[peaks[cycle] + 1]
    /\ FGt(opening_force.f, I(0))

\* C11: with opt = 1 a call that returns has computed the loading curve only
\* and hands back the unloading positions and offsets as an absent result
\* (None), not as a float NaN; the loading outputs are the arrays assembled
\* for the loading arm, whatever opt is.  Violated: lines 157-158 return
\* np.nan for both unloading outputs.
C11_AbsentUnloading ==
    (co_pc = "returned" /\ opt = 1) =>
        /\ Xseg_ul = None
        /\ Coffset_ul = None
        /\ Xseg_l.t = "array"
        /\ Coffset_l.t = "array"
        /\ Xseg_l.a[1] = Xl_min

(***************************************************************************)
(* Properties of the comparison loop, checked under SpecCmp                *)
(***************************************************************************)
\* C12: a failure on one file of the list (a missing file, a read error, an
\* exception inside compliance_offset) ends the analysis of that file only:
\* when the script has ended, every file whose analysis succeeds has its
\* curves stored.  Violated: compliance_offset is called outside the try
\* block, so its exception ends the script and the files after it are never
\* processed.
C12_FailureIsolation ==
    cmp_pc \in {"done", "raised"} =>
        \A k \in 1..Len(files) :
            (files[k].kind = "sheet" /\ files[k].call = {"ok"})
            => (k \in results_loading /\ k \in results_unloading)

(***************************************************************************)
(* Properties of the cleaning and of the peak detection, under SpecPP      *)
(***************************************************************************)
\* C13: the cleaned arrays hold exactly the rows (force, doubled displacement)
\* of the sheet in which neither value is NaN, in their original order: they
\* have the same length, and sample k of each comes from the k-th such row.
C13_AlignedPairs ==
    pp_pc \notin {"idle", "read"} =>
        LET kept == {i \in 1..Len(forces) :
                        ~IsNaN(forces[i]) /\ ~IsNaN(displacements[i])}
        IN  /\ Len(forces_clean) = Cardinality(kept)
            /\ Len(displacements_clean) = Cardinality(kept)
            /\ \A i \in kept :
                   /\ forces_clean[Cardinality({j \in kept : j <= i})] = forces[i]
                   /\ displacements_clean[Cardinality({j \in kept : j <= i})]
                          = FMul(displacements[i], I(2))

\* C13 witness: a cleaning that dropped a row without force and a row
\* without displacement
C13_Witness ==
    /\ pp_pc = "peaks"
    /\ \E i \in 1..Len(forces) : IsNaN(forces[i]) /\ ~IsNaN(displacements[i])
    /\ \E i \in 1..Len(forces) : ~IsNaN(forces[i]) /\ IsNaN(displacements[i])
    /\ Len(forces_clean) = Len(forces) - 2

\* C14: after the cleaning neither cleaned array holds a NaN or an infinite
\* value.  Violated: the mask tests np.isnan only, so an infinite value (the
\* doubling of a displacement above half the float range) stays.
C14_FiniteAfterCleaning ==
    pp_pc \notin {"idle", "read"} =>
        /\ \A k \in 1..Len(forces_clean) : IsNum(forces_clean[k])
        /\ \A k \in 1..Len(displacements_clean) : IsNum(displacements_clean[k])

\* C15 as stated: the peaks are the strictly increasing list of exactly the
\* indices that are local maxima of the cleaned forces (read as samples above
\* both neighbours, or as samples not below either neighbour) with force at
\* least 0.8 * max(force).
C15_LocalMaxima ==
    pp_pc \notin {"idle", "read", "peaks"} =>
        LET x == forces_clean
            found == {peaks[r] : r \in 1..Len(peaks)}
            high(i) == FLe(PeakHeight(x), x[i + 1])
            strict == {i \in 1..(Len(x) - 2) :
                          FLt(x[i], x[i + 1]) /\ FLt(x[i + 2], x[i + 1]) /\ high(i)}
            weak == {i \in 1..(Len(x) - 2) :
                        FLe(x[i], x[i + 1]) /\ FLe(x[i + 2], x[i + 1]) /\ high(i)}
        IN  /\ \A r \in 1..(Len(peaks) - 1) : peaks[r] < peaks[r + 1]
            /\ found = strict \/ found = weak

\* C15: the peaks are the strictly increasing list of the local maxima in the
\* sense of scipy's find_peaks whose force is at least np.max(force)*0.8: a
\* run of equal samples entered by a strict rise and left by a strict fall,
\* reported once, at the middle index of the run (rounded down), so a
\* flat-topped peak gives one index.  For the triangular series repeated 3
\* times the peaks are the three samples of value 100.
C15_PeakDetection ==
    pp_pc \notin {"idle", "read", "peaks"} =>
        LET x == forces_clean
            found == {peaks[r] : r \in 1..Len(peaks)}
            top(a, b) == /\ \A q \in a..b : x[q + 1] = x[a + 1]
                         /\ FLt(x[a], x[a + 1])
                         /\ FLt(x[b + 2], x[b + 1])
                         /\ FLe(PeakHeight(x), x[a + 1])
        IN  /\ \A r \in 1..(Len(peaks) - 1) : peaks[r] < peaks[r + 1]
            /\ found = {i \in 1..(Len(x) - 2) :
                           \E a \in 1..i, b \in i..(Len(x) - 2) :
                               top(a, b) /\ i = (a + b) \div 2}
            /\ forces = Joined(Triangle, Twice(Triangle)).forces =>
                   /\ Len(peaks) = 3
                   /\ found = {i \in 0..(Len(x) - 1) : x[i + 1] = I(100)}

\* C15 witness: a flat-topped cycle with a local maximum below the threshold
C15_Witness ==
    /\ pp_pc = "slice"
    /\ peaks = <<10>>
    /\ forces_clean[11] = forces_clean[12]
    /\ FLt(forces_clean[1], forces_clean[2])
    /\ FLt(forces_clean[3], forces_clean[2])
    /\ FLt(forces_clean[2], PeakHeight(forces_clean))

\* the states in which X_mid is the coarse grid of the arm at hand
CoarseLaid == co_pc \in {"coarse", "fine", "extrapolate", "assemble"}

\* C16: N_segments = 2 + floor((1 - span)/shift), less 1 when span % shift
\* is 0, and no two coarse segment centers coincide; in particular the last
\* interior center is not the final center 1 - 0.5*span.
C16_NoDuplicateCenter ==
    CoarseLaid =>
        /\ N_segments = 2 + FFloor(FlDiv(FlSub(I(1), span), shift))
                          - (IF FEq(FMod(span, shift), I(0)) THEN 1 ELSE 0)
        /\ \A p, q \in 1..Len(X_mid) : p # q => X_mid[p] # X_mid[q]

\* C17: the coarse centers start at X_min + Range*0.5*span, end at
\* X_min + Range*(1 - 0.5*span), are strictly increasing, and consecutive
\* centers are at most shift*Range apart (compared with a margin of one
\* eighth of the step for rounding).
C17_EvenlySpaced ==
    CoarseLaid =>
        /\ X_mid[1] = FlAdd(X_min, FlMul(Range, FlMul(Num(1, 2), span)))
        /\ X_mid[Len(X_mid)] =
               FlAdd(X_min, FlMul(Range, FlSub(I(1), FlMul(Num(1, 2), span))))
        /\ \A p \in 1..(Len(X_mid) - 1) :
               /\ FLt(X_mid[p], X_mid[p + 1])
               /\ FLe(FSub(X_mid[p + 1], X_mid[p]),
                      FMul(FMul(Range, shift), Num(9, 8)))

\* C18: the fine centers start exactly at the first coarse center, are
\* spaced shift1*Range apart, and every one of them lies in
\* [X_mid[0], X_mid[1]]: none lies beyond the second coarse center.
C18_FineWithinFirstStep ==
    co_pc \in {"extrapolate", "assemble"} =>
        /\ Len(X_mid_fine) >= 1
        /\ X_mid_fine[1] = X_mid[1]
        /\ \A k \in 1..Len(X_mid_fine) :
               /\ X_mid_fine[k] =
                      FlAdd(X_mid[1], FlMul(I(k - 1), FlMul(Range, shift1)))
               /\ FLe(X_mid[1], X_mid_fine[k])
               /\ FLe(X_mid_fine[k], X_mid[2])

\* the pairs (displacement, stiffness) of an arm at the indices idx
PairsAt(d, s, idx) == [d |-> Take(d, idx), s |-> Take(s, idx)]

\* the finite-stiffness samples with stiffness >= min_slopes2 and
\* displacement > min_disps2
Window2(d, s, c) ==
    SelectIdx([q \in 1..Len(s) |-> q],
              LAMBDA q : /\ IsNum(s[q])
                         /\ FGe(s[q], c.min_slopes2)
                         /\ FGt(d[q], c.min_disps2), 1)

\* the samples with min_slopes1 <= stiffness <= max_slopes1 and
\* min_disps1 < displacement < max_disps1
Window1(d, s, c) ==
    SelectIdx([q \in 1..Len(s) |-> q],
              LAMBDA q : /\ FGe(s[q], c.min_slopes1)
                         /\ FLe(s[q], c.max_slopes1)
                         /\ FGt(d[q], c.min_disps1)
                         /\ FLt(d[q], c.max_disps1), 1)

\* C19: the regime-2 fit of an arm uses exactly the (displacement, slope)
\* pairs of that arm with slope >= min_slope2 and displacement > min_disp2:
\* a slope equal to min_slope2 is included and no upper bound, max_slope1
\* in particular, excludes a point.
C19_Regime2Window ==
    /\ pp_pc \in {"unloading_intersection", "closure_force"} =>
           /\ xreg2.a = PairsAt(unloading_disps.a, slopes.a,
                                Window2(unloading_disps.a, slopes.a, cal.ul)).d
           /\ yreg2.a = PairsAt(unloading_disps.a, slopes.a,
                                Window2(unloading_disps.a, slopes.a, cal.ul)).s
    /\ pp_pc \in {"loading_intersection", "opening_force"} =>
           /\ xreg2l.a = PairsAt(loading_disps.a, slopes.a,
                                 Window2(loading_disps.a, slopes.a, cal.l)).d
           /\ yreg2l.a = PairsAt(loading_disps.a, slopes.a,
                                 Window2(loading_disps.a, slopes.a, cal.l)).s

\* C20: the regime-1 fit of an arm uses exactly the (displacement, slope)
\* pairs with min_slope1 <= slope <= max_slope1 and
\* min_disp1 < displacement < max_disp1, in the order of the arm; the two
\* filtered arrays have equal length and entry k of each comes from the same
\* sample of the arm.
C20_Regime1Window ==
    /\ pp_pc \in {"unloading_regime2", "unloading_intersection", "closure_force"} =>
           LET w == Window1(unloading_disps.a, slopes.a, cal.ul)
           IN  /\ Len(xreg.a) = Len(w) /\ Len(yreg.a) = Len(w)
               /\ \A k \in 1..Len(w) :
                      /\ xreg.a[k] = unloading_disps.a[w[k]]
                      /\ yreg.a[k] = slopes.a[w[k]]
    /\ pp_pc \in {"loading_regime2", "loading_intersection", "opening_force"} =>
           LET w == Window1(loading_disps.a, slopes.a, cal.l)
           IN  /\ Len(xreg1l.a) = Len(w) /\ Len(yreg1l.a) = Len(w)
               /\ \A k \in 1..Len(w) :
                      /\ xreg1l.a[k] = loading_disps.a[w[k]]
                      /\ yreg1l.a[k] = slopes.a[w[k]]

\* C20 witness: the first regime of the unloading arm keeps a sample whose
\* stiffness equals min_slopes1 and leaves out a sample whose displacement
\* equals max_disps1 and whose stiffness is within the bounds
C20_Witness ==
    /\ pp_pc = "unloading_regime2"
    /\ Len(xreg.a) >= 2
    /\ \E k \in 1..Len(yreg.a) : yreg.a[k] = cal.ul.min_slopes1
    /\ \E q \in 1..Len(unloading_disps.a) :
           /\ unloading_disps.a[q] = cal.ul.max_disps1
           /\ FGe(slopes.a[q], cal.ul.min_slopes1)
           /\ FLe(slopes.a[q], cal.ul.max_slopes1)
           /\ \A k \in 1..Len(xreg.a) : xreg.a[k] # unloading_disps.a[q]

(***************************************************************************)
(* Further properties of compliance_offset, checked under SpecCO           *)
(***************************************************************************)
\* the states of a call in which C0 has been fitted
CORefDone ==
    co_pc \in {"grid", "coarse", "fine", "extrapolate", "assemble", "returned"}

\* m is a least-squares slope of ys against xs: it solves the normal
\* equation m*(n*Sxx - Sx^2) = n*Sxy - Sx*Sy
LeastSquaresSlope(m, xs, ys) ==
    FMul(m, FSub(FMul(I(Len(xs)), FSum([q \in 1..Len(xs) |-> FMul(xs[q], xs[q])])),
                 FMul(FSum(xs), FSum(xs))))
        = FSub(FMul(I(Len(xs)), FSum([q \in 1..Len(xs) |-> FMul(xs[q], ys[q])])),
               FMul(FSum(xs), FSum(ys)))

\* the positions of the unloading samples whose force lies in [lo, hi]
InBand(lo, hi) == SelectIdx(Xul, LAMBDA v : FLe(lo, v) /\ FLe(v, hi), 1)

\* the band [Xul_min + (HL - F)*(X_max - Xul_min), Xul_min + HL*(X_max - Xul_min)]
RefBand ==
    InBand(FlAdd(Xul_min, FlMul(FlSub(HL, F), FlSub(X_max, Xul_min))),
           FlAdd(Xul_min, FlMul(HL, FlSub(X_max, Xul_min))))

\* C21: C0 is the least-squares slope of displacement against force over
\* exactly the unloading samples whose force lies in the reference band, both
\* ends inclusive, and the offsets of the loading arm and of the unloading arm
\* are both taken against this C0, for opt = 1 and for opt = 2.
C21_ReferenceCompliance ==
    /\ CORefDone =>
           \E band \in {RefBand} :
               /\ Len(band) >= 1
               /\ \E xs \in {Take(Xul, band)}, ys \in {Take(Yul, band)} :
                      LeastSquaresSlope(C0, xs, ys)
    /\ co_pc = "fine" =>
           \A j \in 1..Len(Coffset1) :
               Coffset1[j] =
                   FDiv(FMul(FSub(C0, SegFit(X, Y, X_mid[j], Width).c0), I(100)), C0)
    /\ co_pc = "extrapolate" =>
           \A k \in 1..Len(Coffset2) :
               Coffset2[k] =
                   FDiv(FMul(FSub(C0, SegFit(X, Y, X_mid_fine[k], Width).c0), I(100)), C0)

\* C21 witness: the offsets of the unloading arm of an opt = 2 call on a
\* closure curve, whose two arms differ, with a two-sample reference band
C21_Witness ==
    /\ co_pc = "extrapolate"
    /\ opt = 2
    /\ arm_i = 2
    /\ Yl # Rev(Yul)
    /\ Len(RefBand) >= 2
    /\ IsNum(C0)
    /\ \E j \in 1..Len(Coffset1) : IsNum(Coffset1[j]) /\ Coffset1[j] # I(0)

(***************************************************************************)
(* Further properties of the cycle extraction, checked under SpecPP        *)
(***************************************************************************)
\* i is the first index of range(from, to) whose force is at or below level
FirstReturn(i, from, to, level) ==
    /\ from <= i /\ i < to
    /\ FLe(forces_clean[i + 1], level)
    /\ \A j \in from..(i - 1) : ~FLe(forces_clean[j + 1], level)

\* no index of range(from, to) has a force at or below level
NoneReturns(from, to, level) ==
    \A j \in from..(to - 1) : ~FLe(forces_clean[j + 1], level)

\* C22 as stated: for cycle >= 2, start and load_start are the first index
\* from peaks[cycle-2] up to, not including, peaks[cycle-1] whose force is at
\* or below the threshold; for cycle 1 the starts are 0, 0 and peaks[0].
C22_FirstReturn ==
    cycle <= Len(peaks) =>
        /\ (start # None /\ cycle >= 2) =>
               FirstReturn(start.f.n, peaks[cycle - 1], peaks[cycle], force_min)
        /\ (load_start # None /\ cycle >= 2) =>
               FirstReturn(load_start.f.n, peaks[cycle - 1], peaks[cycle], force_min)
        /\ (start # None /\ cycle = 1) => start = Idx(0)
        /\ (load_start # None /\ cycle = 1) => load_start = Idx(0)
        /\ (release_start # None /\ cycle = 1) => release_start = Idx(peaks[1])

\* C22: for cycle >= 2, start and load_start are the first index from
\* peaks[cycle-2] up to, not including, peaks[cycle-1] whose force is at or
\* below the threshold, and peaks[cycle-2] itself when there is no such
\* index; for cycle 1 no scan is made: the starts are 0, 0 and peaks[0].
C22_CycleStart ==
    cycle <= Len(peaks) =>
        /\ (start # None /\ cycle >= 2) =>
               \/ FirstReturn(start.f.n, peaks[cycle - 1], peaks[cycle], force_min)
               \/ /\ NoneReturns(peaks[cycle - 1], peaks[cycle], force_min)
                  /\ start = Idx(peaks[cycle - 1])
        /\ (load_start # None /\ cycle >= 2) =>
               \/ FirstReturn(load_start.f.n, peaks[cycle - 1], peaks[cycle], force_min)
               \/ /\ NoneReturns(peaks[cycle - 1], peaks[cycle], force_min)
                  /\ load_start = Idx(peaks[cycle - 1])
        /\ (start # None /\ cycle = 1) => start = Idx(0)
        /\ (load_start # None /\ cycle = 1) => load_start = Idx(0)
        /\ (release_start # None /\ cycle = 1) => release_start = Idx(peaks[1])

\* C22 witness: the loading arm of cycle 2 starts at the first of two
\* successive samples at or below the threshold, after the previous peak
C22_Witness ==
    /\ cycle = 2
    /\ Len(peaks) >= 2
    /\ load_start # None
    /\ start = load_start
    /\ load_start.f.n > peaks[1]
    /\ load_start.f.n + 1 < peaks[2]
    /\ FLe(forces_clean[load_start.f.n + 2], force_min)

\* C23 as stated: end and release_end are the first index at or after
\* peaks[cycle-1] whose force is at or below force_min, so the unloading arm
\* [peaks[cycle-1], release_end) begins with the peak sample and all its
\* samples have a force above the threshold.
C23_FirstReturnAfterPeak ==
    cycle <= Len(peaks) =>
        /\ end # None =>
               FirstReturn(end.f.n, peaks[cycle], Len(forces_clean), force_min)
        /\ release_end # None =>
               FirstReturn(release_end.f.n, peaks[cycle], Len(forces_clean), force_min)
        /\ unloading_forces # None =>
               /\ Len(unloading_forces.a) >= 1
               /\ unloading_forces.a[1] = forces_clean[peaks[cycle] + 1]
               /\ \A q \in 1..Len(unloading_forces.a) :
                      FGt(unloading_forces.a[q], force_min)

\* C23: end and release_end are the first index at or after peaks[cycle-1]
\* whose force is at or below force_min, and peaks[cycle-1] itself when there
\* is none.  The unloading arm is forces[peaks[cycle-1] : release_end]: all
\* its samples have a force above the threshold and, unless it is empty
\* (release_end = peaks[cycle-1]), it begins with the peak sample.
C23_CycleEnd ==
    cycle <= Len(peaks) =>
        /\ end # None =>
               \/ FirstReturn(end.f.n, peaks[cycle], Len(forces_clean), force_min)
               \/ /\ NoneReturns(peaks[cycle], Len(forces_clean), force_min)
                  /\ end = Idx(peaks[cycle])
        /\ release_end # None =>
               \/ FirstReturn(release_end.f.n, peaks[cycle], Len(forces_clean), force_min)
               \/ /\ NoneReturns(peaks[cycle], Len(forces_clean), force_min)
                  /\ release_end = Idx(peaks[cycle])
        /\ unloading_forces # None =>
               /\ Len(unloading_forces.a) = release_end.f.n - peaks[cycle]
               /\ \A q \in 1..Len(unloading_forces.a) :
                      /\ unloading_forces.a[q] = forces_clean[peaks[cycle] + q]
                      /\ FGt(unloading_forces.a[q], force_min)

\* C23 witness: an unloading arm that stops at the first of several later
\* samples at or below the threshold
C23_Witness ==
    /\ cycle <= Len(peaks)
    /\ unloading_forces # None
    /\ end = release_end
    /\ Len(unloading_forces.a) >= 2
    /\ release_end.f.n + 1 < Len(forces_clean)
    /\ FLe(forces_clean[release_end.f.n + 1], force_min)
    /\ FLe(forces_clean[release_end.f.n + 2], force_min)

\* q is the earliest position of disps_arm nearest to the target
EarliestNearest(q, disps_arm, disp_target) ==
    /\ q \in 1..Len(disps_arm)
    /\ \A j \in 1..Len(disps_arm) :
           FLe(FAbs(FSub(disps_arm[q], disp_target)),
               FAbs(FSub(disps_arm[j], disp_target)))
    /\ \A j \in 1..(q - 1) :
           FLt(FAbs(FSub(disps_arm[q], disp_target)),
               FAbs(FSub(disps_arm[j], disp_target)))

\* the target lies within [min, max] of the displacements of the arm
InRange(disps_arm, disp_target) ==
    /\ FLe(FMinSeq(disps_arm), disp_target)
    /\ FLe(disp_target, FMaxSeq(disps_arm))

\* C24: when x* lies within the displacement range of the arm, the reported
\* force is that of a sample whose displacement is nearest x* (no sample is
\* strictly nearer), the earliest such sample on ties.
C24_InRangeLookup ==
    /\ (closure_force # None /\ InRange(unloading_disps.a, x_intersect.f)) =>
           \E q \in 1..Len(unloading_disps.a) :
               /\ EarliestNearest(q, unloading_disps.a, x_intersect.f)
               /\ closure_force = Flt(unloading_forces.a[q])
    /\ (opening_force # None /\ InRange(loading_disps.a, x_intersectl.f)) =>
           \E q \in 1..Len(loading_disps.a) :
               /\ EarliestNearest(q, loading_disps.a, x_intersectl.f)
               /\ opening_force = Flt(loading_forces.a[q])

\* C24 witness: a closure force looked up inside the range, with two samples
\* of different force equally near the target
C24_Witness ==
    /\ closure_force # None
    /\ InRange(unloading_disps.a, x_intersect.f)
    /\ \E q \in 1..Len(unloading_disps.a) :
           /\ EarliestNearest(q, unloading_disps.a, x_intersect.f)
           /\ \E j \in (q + 1)..Len(unloading_disps.a) :
                  /\ FAbs(FSub(unloading_disps.a[j], x_intersect.f))
                         = FAbs(FSub(unloading_disps.a[q], x_intersect.f))
                  /\ unloading_forces.a[j] # unloading_forces.a[q]

\* the ends of the window of a center
WinLo(center) == FlSub(center, FlMul(Num(1, 2), FlMul(Range, span)))

WinHi(center) == FlAdd(center, FlMul(Num(1, 2), FlMul(Range, span)))

\* the distance between center + 0.5*Width and center - 0.5*Width, before
\* each of the two is rounded to a float
WinWidth(center) ==
    FSub(FAdd(center, FlMul(Num(1, 2), FlMul(Range, span))),
         FSub(center, FlMul(Num(1, 2), FlMul(Range, span))))

\* the positions of the samples of the arm whose X lies in [lo, hi]
Between(lo, hi) == SelectIdx(X, LAMBDA v : FLe(lo, v) /\ FLe(v, hi), 1)

\* the offset (C0 - C)*100/C0 of the line fitted over the positions idx
WindowOffset(idx) ==
    FDiv(FMul(FSub(C0, Polyfit(Take(X, idx), Take(Y, idx)).c0), I(100)), C0)

\* C25: every coarse and every fine window holds exactly the samples whose X
\* lies in [center - 0.5*span*Range, center + 0.5*span*Range], both ends
\* inclusive; its two ends center - 0.5*Width and center + 0.5*Width are,
\* before each is rounded to a float, span*Range apart wherever the center
\* lies (a window near an end of the arm is not cut at the arm's range), and
\* its offset is (C0 - C1[j])*100/C0 with C1[j] the slope fitted over it.
C25_SegmentWindow ==
    /\ co_pc = "fine" =>
           /\ Len(Coffset1) = N_segments
           /\ \A j \in 1..N_segments :
                  /\ Coffset1[j] = WindowOffset(Between(WinLo(X_mid[j]), WinHi(X_mid[j])))
                  /\ WinWidth(X_mid[j]) = FlMul(Range, span)
    /\ co_pc = "extrapolate" =>
           /\ Len(Coffset2) = Len(X_mid_fine)
           /\ \A k \in 1..Len(X_mid_fine) :
                  /\ Coffset2[k] =
                         WindowOffset(Between(WinLo(X_mid_fine[k]), WinHi(X_mid_fine[k])))
                  /\ WinWidth(X_mid_fine[k]) = FlMul(Range, span)

\* C25 witness: a coarse window with a sample on each of its two ends and an
\* offset other than 0
C25_Witness ==
    /\ co_pc = "fine"
    /\ \E j \in 1..N_segments :
           /\ \E q \in 1..Len(X) : X[q] = WinLo(X_mid[j])
           /\ \E q \in 1..Len(X) : X[q] = WinHi(X_mid[j])
           /\ IsNum(Coffset1[j])
           /\ Coffset1[j] # I(0)

C27_MissingReturn ==
    (/\ cycle <= Len(peaks)
     /\ pp_pc \notin {"read", "peaks", "slice"}
     /\ NoneReturns(peaks[cycle], Len(forces_clean), force_min)) =>
        /\ end = Idx(peaks[cycle])
        /\ forces_cycle.a = Slice(forces_clean, start.f.n, peaks[cycle])
        /\ disps_cycle.a = Slice(displacements_clean, start.f.n, peaks[cycle])
        /\ pp_pc # "loading_arm" => loading_forces # None
        /\ pp_pc \notin {"loading_arm", "unloading_arm"} =>
               /\ release_end = Idx(peaks[cycle])
               /\ unloading_forces = Arr(<<>>)
               /\ unloading_disps = Arr(<<>>)

\* C27 witness: the extraction of the last cycle of a record whose force
\* stays above force_min, gone through without an exception
C27_Witness ==
    /\ cycle = Len(peaks)
    /\ cycle = 2
    /\ pp_pc = "unloading_stiffness"
    /\ NoneReturns(peaks[cycle], Len(forces_clean), force_min)
    /\ unloading_forces = Arr(<<>>)
    /\ Len(forces_cycle.a) >= 2

\* C28: whenever N_segments >= 2 the coarse grid holds N_segments centers,
\* one per fitted compliance, and the position array and the offset array
\* returned for an arm have the same length.
C28_GridConsistency ==
    /\ (CoarseLaid /\ N_segments >= 2) => Len(X_mid) = N_segments
    /\ co_pc = "fine" => Len(Coffset1) = Len(X_mid)
    /\ co_pc = "returned" =>
           /\ Len(Xseg_l.a) = Len(Coffset_l.a)
           /\ opt = 2 => Len(Xseg_ul.a) = Len(Coffset_ul.a)

(***************************************************************************)
(* Properties of the step builder, checked under SpecCL                    *)
(***************************************************************************)
\* C29: every created step names as its previous the step created
\* immediately before it ('Initial' for the first one), the steps of a cycle
\* come as Mount-1..k, Plateau-1..p, Descent-1..d, and no StaticStep call
\* names a previous step that has not been created
C29_LinearChain ==
    /\ \A i \in 1..Len(cl_steps) :
           cl_steps[i].previous =
               IF i = 1 THEN InitialStep ELSE cl_steps[i - 1].name
    /\ cl_err = <<>>

\* with the standard lengths the chain is linear over both cycles
C29_StandardChain ==
    (/\ cl_params.charge = StdCharge
     /\ cl_params.decharge = StdDecharge
     /\ cl_params.plateau = AssumedPlateau)
        => C29_LinearChain

(***************************************************************************)
(* Properties of the job driver, checked under SpecJob                     *)
(***************************************************************************)
\* a job whose model creation or submission failed
Skipped(j) == Printed("error_inp", j) \cup Printed("error_exec", j) # {}

\* C30: '<job> finished' is printed, and the next job started, only after
\* the solver of the job has created and removed its .lck file; a job whose
\* model creation or submission returns non-zero is skipped without waiting;
\* 'All jobs have finished' is printed only after every pair was attempted
C30_WaitsForCompletion ==
    /\ \A j \in 1..jb_total :
           Printed("finished", j) # {} => jb_solver[j] = "completed"
    /\ \A j \in 1..jb_total :
           j < jb_counter => jb_solver[j] \in {"none", "completed"}
    /\ \A j \in 1..jb_total :
           Skipped(j) => /\ jb_solver[j] = "none"
                         /\ Printed("wait", j) = {}
                         /\ Printed("finished", j) = {}
    /\ Printed("all", 0) # {} =>
           \A j \in 1..jb_total : Skipped(j) \/ Printed("finished", j) # {}

\* what the lookup does establish: a job is reported finished, and the next
\* one started, only while its .lck file does not exist
C30_ReportedWhileUnlocked ==
    [][\A j \in 1..jb_total :
           (Printed("finished", j) = {} /\ Printed("finished", j)' # {})
               => j \notin jb_lck /\ jb_solver[j] \in {"submitted", "completed"}]_vars

====
